---------------------------- MODULE Spec2Model ----------------------------
(***************************************************************************)
(* A model of the tabular-data toolkit of lib_py_misc (TableTools.py):     *)
(* the streaming row iterator, the expression evaluator shared by all the  *)
(* tools, and the operators built on them.                                 *)
(*                                                                         *)
(* Text is modelled as sequences of one-character strings.  A file is the  *)
(* sequence of the lines readline() returns, each line holding its own     *)
(* terminating newline when it has one.  A table row is a sequence whose   *)
(* first element is the row-number cell (Python index 0) and whose other   *)
(* elements are the column values (Python indexes 1..n).                   *)
(***************************************************************************)
EXTENDS Integers, Sequences, FiniteSets, TLC

VARIABLES
    self,       \* the fields of the tool object that is running
    t1,         \* TableTool.t1 : TableFileIterator
    t2,         \* TableTool.t2 : TableFileIterator
    ofd,        \* the lines written to the output file(s)
    lfd,        \* the lines written to the log file
    pc,         \* the position of the running program
    returned,   \* history: what the calls made so far returned
    evalLog     \* history: the expressions evaluated by the last call

vars == <<self, t1, t2, ofd, lfd, pc, returned, evalLog>>

----------------------------------------------------------------------------
(* Characters and strings                                                  *)

NL    == "\n"
TAB   == "\t"
HASH  == "#"

\* None, the empty list and the empty string are all falsy in Python; a
\* row is never empty (it holds at least its row number and one column),
\* so the empty sequence stands for None wherever a row is expected.
None == <<>>

\* A Python int among strings: tagged, so that it never equals a string.
PyInt(n) == <<"int", n>>
IntOf(cell) == cell[2]

\* s[:-1]
DropLast(s) == SubSeq(s, 1, Len(s) - 1)

\* s.startswith(c) for a one-character c
StartsWith(s, c) == Len(s) > 0 /\ s[1] = c

\* s.split(sep) for a one-character sep: always at least one item
RECURSIVE Split(_, _)
Split(s, sep) ==
    IF \E i \in 1..Len(s) : s[i] = sep
    THEN LET i == CHOOSE k \in 1..Len(s) :
                      s[k] = sep /\ \A j \in 1..(k-1) : s[j] # sep
         IN  <<SubSeq(s, 1, i-1)>> \o Split(SubSeq(s, i+1, Len(s)), sep)
    ELSE <<s>>

\* sep.join(items) for a one-character (or empty) sep
RECURSIVE Join(_, _)
Join(sep, items) ==
    IF items = <<>> THEN <<>>
    ELSE IF Len(items) = 1 THEN items[1]
    ELSE items[1] \o sep \o Join(sep, Tail(items))

\* str(n) for a small non-negative integer
Digit(d) == CASE d = 0 -> "0" [] d = 1 -> "1" [] d = 2 -> "2" [] d = 3 -> "3"
              [] d = 4 -> "4" [] d = 5 -> "5" [] d = 6 -> "6" [] d = 7 -> "7"
              [] d = 8 -> "8" [] d = 9 -> "9"
RECURSIVE StrInt(_)
StrInt(n) == IF n < 10 THEN <<Digit(n)>> ELSE StrInt(n \div 10) \o <<Digit(n % 10)>>

\* the code point order of the characters used, for string comparison
Ord(c) == CASE c = TAB -> 9  [] c = NL -> 10 [] c = HASH -> 35
            [] c = "," -> 44 [] c = "-" -> 45 [] c = "." -> 46
            [] c = "0" -> 48 [] c = "1" -> 49 [] c = "2" -> 50 [] c = "3" -> 51
            [] c = "4" -> 52 [] c = "5" -> 53 [] c = "6" -> 54 [] c = "7" -> 55
            [] c = "8" -> 56 [] c = "9" -> 57
            [] c = "[" -> 91 [] c = "]" -> 93
            [] c = "a" -> 97 [] c = "b" -> 98 [] c = "c" -> 99
            [] c = "m" -> 109 [] c = "n" -> 110

\* s < t for Python strings
RECURSIVE StrLess(_, _)
StrLess(s, t) ==
    IF t = <<>> THEN FALSE
    ELSE IF s = <<>> THEN TRUE
    ELSE IF s[1] # t[1] THEN Ord(s[1]) < Ord(t[1])
    ELSE StrLess(Tail(s), Tail(t))

----------------------------------------------------------------------------
(* Files                                                                   *)

\* A file handed to open(): how it is named, which stream it is, and the
\* lines it holds.  how = "path" (a file name), "stdin" (the name "-") or
\* "object" (an already open file object).
File(how, id, lines) == [how |-> how, id |-> id, lines |-> lines]

\* os.stat(name).st_size
RECURSIVE SizeOf(_)
SizeOf(lines) == IF lines = <<>> THEN 0 ELSE Len(lines[1]) + SizeOf(Tail(lines))

\* fileDesc is None
NoFile == [id |-> "None", lines |-> <<>>, pos |-> 0]

\* the log lines
Warning(n, lineNum, expected) ==
    [kind |-> "WARNING", n |-> n, lineNum |-> lineNum, expected |-> expected,
     text |-> <<>>]
Echo(line) ==
    [kind |-> "text", n |-> 0, lineNum |-> 0, expected |-> 0, text |-> line]
Debug(msg) ==
    [kind |-> msg, n |-> 0, lineNum |-> 0, expected |-> 0, text |-> <<>>]

----------------------------------------------------------------------------
(* TableFileIterator                                                       *)

\* TableFileIterator.__init__
TableFileIterator_init ==
    [ncols          |-> 0,
     separatorChar  |-> TAB,
     commentChar    |-> HASH,
     fileName       |-> "None",
     fileDesc       |-> NoFile,
     currentLine    |-> None,
     currentLineNum |-> 0,
     currentRow     |-> None,
     currentRowNum  |-> 0]

\* TableFileIterator.close
TableFileIterator_close(it) ==
    [it EXCEPT !.fileDesc = NoFile, !.fileName = "None"]

\* TableFileIterator.open: the counters are set back, ncols is not
TableFileIterator_open(it, file) ==
    LET c == TableFileIterator_close(it)
        name == IF file.how = "path" THEN file.id
                ELSE IF file.how = "stdin" THEN "<stdin>" ELSE "<???>"
    IN  [c EXCEPT !.fileName = name,
                  !.fileDesc = [id |-> file.id, lines |-> file.lines, pos |-> 0],
                  !.currentLineNum = 0,
                  !.currentLine = None,
                  !.currentRowNum = 0,
                  !.currentRow = None]

\* self.currentLine = self.fileDesc.readline()
Readline(it) ==
    IF it.fileDesc.pos < Len(it.fileDesc.lines)
    THEN [it EXCEPT !.currentLine = it.fileDesc.lines[it.fileDesc.pos + 1],
                    !.fileDesc.pos = @ + 1]
    ELSE [it EXCEPT !.currentLine = <<>>]

\* the while loop of nextRow, entered with the line just read
RECURSIVE NextRowLoop(_, _)
NextRowLoop(it, log) ==
    IF it.currentLine = <<>>
    THEN [it |-> it, row |-> None, log |-> log]
    ELSE
      LET a == [it EXCEPT !.currentLineNum = @ + 1] IN
      IF a.currentLine = <<NL>> \/ StartsWith(a.currentLine, a.commentChar)
      THEN NextRowLoop(Readline(a), log)
      ELSE
        LET num == a.currentRowNum + 1
            raw == <<PyInt(num)>> \o Split(a.currentLine, a.separatorChar)
            row == [raw EXCEPT ![Len(raw)] = DropLast(@)]
            b   == [a EXCEPT !.currentRowNum = num, !.currentRow = row]
        IN  IF b.ncols = 0
            THEN [it |-> [b EXCEPT !.ncols = Len(row) - 1], row |-> row, log |-> log]
            ELSE IF b.ncols # Len(row) - 1
            THEN NextRowLoop(Readline(b),
                     log \o <<Warning(Len(row) - 1, b.currentLineNum, b.ncols),
                              Echo(b.currentLine)>>)
            ELSE [it |-> b, row |-> row, log |-> log]

\* TableFileIterator.nextRow: the iterator after the call, the row it
\* returns (None at the end of the file) and what it wrote to the log
TableFileIterator_nextRow(it) == NextRowLoop(Readline(it), <<>>)

\* TableFileIterator.fileSize
TableFileIterator_fileSize(it) ==
    IF it.fileName \in {"<stdin>", "<???>"} THEN -1 ELSE SizeOf(it.fileDesc.lines)

\* TableFileIterator.getNCols
getNCols(it) == it.ncols

----------------------------------------------------------------------------
(* The input files the model runs on                                       *)

MaxLines == 3

\* every sequence of at most n items of S
RECURSIVE SeqsUpTo(_, _)
SeqsUpTo(S, n) ==
    IF n = 0 THEN {<<>>}
    ELSE LET shorter == SeqsUpTo(S, n - 1)
         IN  shorter \cup {Append(s, x) : s \in {q \in shorter : Len(q) = n - 1}, x \in S}

\* the files made of the given lines (each given without its newline):
\* every line ends with a newline, except that the last one may lack it
\* when it is not empty
FilesOf(texts, n) ==
    LET full == {[i \in 1..Len(q) |-> q[i] \o <<NL>>] : q \in SeqsUpTo(texts, n)}
        cut  == {[f EXCEPT ![Len(f)] = DropLast(@)] :
                    f \in {g \in full : Len(g) > 0 /\ Len(g[Len(g)]) > 1}}
    IN  full \cup cut

\* a blank line, a comment, a one-column row and a two-column row
IterTexts == { <<>>, <<HASH, "a">>, <<"a">>, <<"a", TAB, "b">> }
IterFiles == FilesOf(IterTexts, MaxLines)


----------------------------------------------------------------------------
(* A program that drives one TableFileIterator: it opens a file, calls     *)
(* nextRow() any number of times, closes, and may open another file with   *)
(* the same iterator (open() itself starts by closing the previous file).  *)

MaxOpens == 2

IterInit ==
    /\ self = [tool |-> "TableFileIterator", opens |-> 0, logMark |-> 0]
    /\ t1 = TableFileIterator_init
    /\ t2 = TableFileIterator_init
    /\ ofd = <<>>
    /\ lfd = <<>>
    /\ pc = "closed"
    /\ returned = <<>>
    /\ evalLog = <<>>

\* t1.open(file)
IterOpen ==
    /\ self.opens < MaxOpens
    /\ \E lines \in IterFiles :
          t1' = TableFileIterator_open(t1, File("path", "f", lines))
    /\ self' = [self EXCEPT !.opens = @ + 1, !.logMark = Len(lfd)]
    /\ pc' = "open"
    /\ returned' = <<>>
    /\ UNCHANGED <<t2, ofd, lfd, evalLog>>

\* row = t1.nextRow(), until it has returned None
IterNextRow ==
    /\ pc = "open"
    /\ LET r == TableFileIterator_nextRow(t1) IN
         /\ t1' = r.it
         /\ lfd' = lfd \o r.log
         /\ returned' = Append(returned, [lineNum |-> r.it.currentLineNum, row |-> r.row])
         /\ pc' = IF r.row = None THEN "exhausted" ELSE "open"
    /\ UNCHANGED <<self, t2, ofd, evalLog>>

\* t1.close()
IterClose ==
    /\ pc \in {"open", "exhausted"}
    /\ t1' = TableFileIterator_close(t1)
    /\ pc' = "closed"
    /\ UNCHANGED <<self, t2, ofd, lfd, returned, evalLog>>

IterNext == IterOpen \/ IterNextRow \/ IterClose

SpecIter == IterInit /\ [][IterNext]_vars

----------------------------------------------------------------------------
(* What a table file holds, read off its text                              *)

IsBlank(line)   == line = <<NL>>
IsComment(line) == Len(line) > 0 /\ line[1] = HASH
IsData(line)    == ~IsBlank(line) /\ ~IsComment(line)
ColumnCount(line) == Cardinality({k \in 1..Len(line) : line[k] = TAB}) + 1

\* the line numbers of the data lines of a file
DataLines(f) == {i \in 1..Len(f) : IsData(f[i])}
\* the column count of the first data line
FirstWidth(f) == ColumnCount(f[CHOOSE i \in DataLines(f) : \A j \in DataLines(f) : i <= j])
\* the data lines with that column count, and the others
GoodLines(f) == {i \in DataLines(f) : ColumnCount(f[i]) = FirstWidth(f)}
BadLines(f)  == DataLines(f) \ GoodLines(f)

\* the members of a set of numbers, in increasing order
RECURSIVE Ascending(_)
Ascending(S) ==
    IF S = {} THEN <<>>
    ELSE LET m == CHOOSE x \in S : \A y \in S : x <= y
         IN  <<m>> \o Ascending(S \ {m})

IsPrefix(s, t) == Len(s) <= Len(t) /\ SubSeq(t, 1, Len(s)) = s

\* the line numbers of the rows returned so far, and of the warnings
\* written since the file was opened
ReturnedLines ==
    LET rows == SelectSeq(returned, LAMBDA r : r.row # None)
    IN  [i \in 1..Len(rows) |-> rows[i].lineNum]
WarnedLines ==
    LET w == SelectSeq(SubSeq(lfd, self.logMark + 1, Len(lfd)),
                       LAMBDA e : e.kind = "WARNING")
    IN  [i \in 1..Len(w) |-> w[i].lineNum]

\* nextRow() on the file now open returns exactly the good lines, in
\* order, warns about exactly the bad lines it passed, and returns None
\* only when the file is exhausted
NextRowSelectsLines ==
    LET f == t1.fileDesc.lines
        read == t1.fileDesc.pos
    IN  /\ ReturnedLines = Ascending({i \in GoodLines(f) : i <= read})
        /\ WarnedLines = Ascending({i \in BadLines(f) : i <= read})
        /\ (pc = "exhausted" => read = Len(f))
        /\ (pc = "open" /\ returned # <<>> => returned[Len(returned)].row # None)

\* C1: for any input file, successive nextRow() calls return, in file
\* order, exactly the lines that are neither blank nor comments and whose
\* column count equals that of the first such line; a line with another
\* column count is skipped with a WARNING in the log; nextRow() returns
\* None once the file is exhausted.
C1_NextRowReturnsTheGoodLines ==
    pc \in {"open", "exhausted"} => NextRowSelectsLines

\* the same, for the first file an iterator opens
C1_HoldsForTheFirstFile ==
    pc \in {"open", "exhausted"} /\ self.opens = 1 => NextRowSelectsLines


----------------------------------------------------------------------------
(* TableTool: the caller's expressions                                     *)

\* A command-line expression: whether it starts with '?', and the Python
\* text after the '?'.  Arg(TRUE, "IN[1]=='a'") is the argument
\* "?IN[1]=='a'".
Arg(q, e) == [q |-> q, e |-> e]

\* Python values: a str is its characters; the others are tagged.
PyBool(b)   == <<"bool", b>>
Value(t, v) == [t |-> t, v |-> v]
Raise(what) == [t |-> "raise", v |-> what]

\* row[i] for a Python index i >= 0, or IndexError
Item(row, i) == IF i + 1 <= Len(row) THEN Value("str", row[i + 1]) ELSE Raise("IndexError")
\* row[1:]
From1(row) == SubSeq(row, 2, Len(row))

\* bool(x)
Truth(x) ==
    CASE x.t = "bool"  -> x.v
      [] x.t = "str"   -> x.v # <<>>
      [] x.t = "list"  -> x.v # <<>>
      [] x.t = "tuple" -> x.v # <<>>

\* the value of the Python text e with IN (or IN1) bound to r1 and IN2 to r2
EvalText(e, r1, r2) ==
    CASE e = "IN[1]"      -> Item(r1, 1)
      [] e = "IN[2]"      -> Item(r1, 2)
      [] e = "IN[9]"      -> Item(r1, 9)
      [] e = "IN[1]=='a'" -> IF Item(r1, 1).t = "raise" THEN Item(r1, 1)
                             ELSE Value("bool", Item(r1, 1).v = <<"a">>)
      [] e = "IN[1:]"     -> Value("list", From1(r1))
      [] e = "(IN[1],IN[1])" ->
             IF Item(r1, 1).t = "raise" THEN Item(r1, 1)
             ELSE Value("tuple", <<Item(r1, 1).v, Item(r1, 1).v>>)
      [] e = "IN1[1:]+IN2[1:]" -> Value("list", From1(r1) \o From1(r2))
      [] e = "IN1[1]==IN2[1]"  ->
             IF Item(r1, 1).t = "raise" THEN Item(r1, 1)
             ELSE IF Item(r2, 1).t = "raise" THEN Item(r2, 1)
             ELSE Value("bool", Item(r1, 1).v = Item(r2, 1).v)
      [] e = "IN1[1]=='a'" -> IF Item(r1, 1).t = "raise" THEN Item(r1, 1)
                              ELSE Value("bool", Item(r1, 1).v = <<"a">>)

\* TableTool.makeFunction: a filter's text is wrapped in bool( )
makeFunction(arg) == [expr |-> arg.e, wrapped |-> arg.q]

\* calling the function makeFunction returned
Call(f, r1, r2) ==
    LET x == EvalText(f.expr, r1, r2)
    IN  IF f.wrapped /\ x.t # "raise" THEN Value("bool", Truth(x)) ELSE x

\* TableTool.compileFunctions: the functions and the parallel isFilter
\* list; the default generator is added when no argument is a generator
compileFunctions(ninputs, args) ==
    LET fs  == [i \in 1..Len(args) |-> makeFunction(args[i])]
        isf == [i \in 1..Len(args) |-> args[i].q]
        noGenerators == \A i \in 1..Len(args) : args[i].q
        dflt == IF ninputs = 1 THEN Arg(FALSE, "IN[1:]") ELSE Arg(FALSE, "IN1[1:]+IN2[1:]")
    IN  IF noGenerators
        THEN [functions |-> Append(fs, makeFunction(dflt)), isFilter |-> Append(isf, FALSE)]
        ELSE [functions |-> fs, isFilter |-> isf]

\* TableTool.__init__ followed by parseCmdLine: the fields every tool has
TableTool(ninputs, args) ==
    LET c == compileFunctions(ninputs, args)
    IN  [ninputs |-> ninputs, nOutputRows |-> 0,
         functions |-> c.functions, isFilter |-> c.isFilter]

\* generateOutputRow with a failing filter skipped instead of ending the row
RECURSIVE GenerateLoopNoStop(_, _, _, _, _, _)
GenerateLoopNoStop(tool, r1, r2, i, outrow, evaluated) ==
    IF i > Len(tool.functions)
    THEN [row |-> outrow, evaluated |-> evaluated, raised |-> FALSE]
    ELSE
      LET x == Call(tool.functions[i], r1, r2)
          ev == Append(evaluated, i)
      IN  IF x.t = "raise"
          THEN [row |-> None, evaluated |-> ev, raised |-> TRUE]
          ELSE IF tool.isFilter[i]
          THEN GenerateLoopNoStop(tool, r1, r2, i + 1, outrow, ev)
          ELSE IF x.t = "list" \/ x.t = "tuple"
          THEN GenerateLoopNoStop(tool, r1, r2, i + 1, outrow \o x.v, ev)
          ELSE GenerateLoopNoStop(tool, r1, r2, i + 1,
                   Append(outrow, IF x.t = "bool" THEN PyBool(x.v) ELSE x.v), ev)

\* the for loop of generateOutputRow from function i on: the row it
\* returns (None when a filter fails), the functions it evaluated, and
\* whether one of them raised
RECURSIVE GenerateLoop(_, _, _, _, _, _)
GenerateLoop(tool, r1, r2, i, outrow, evaluated) ==
    IF i > Len(tool.functions)
    THEN [row |-> outrow, evaluated |-> evaluated, raised |-> FALSE]
    ELSE
      LET x == Call(tool.functions[i], r1, r2)
          ev == Append(evaluated, i)
      IN  IF x.t = "raise"
          THEN [row |-> None, evaluated |-> ev, raised |-> TRUE]
          ELSE IF tool.isFilter[i]
          THEN IF Truth(x)
               THEN GenerateLoop(tool, r1, r2, i + 1, outrow, ev)
               ELSE [row |-> None, evaluated |-> ev, raised |-> FALSE]
          ELSE IF x.t = "list" \/ x.t = "tuple"
          THEN GenerateLoop(tool, r1, r2, i + 1, outrow \o x.v, ev)
          ELSE GenerateLoop(tool, r1, r2, i + 1,
                   Append(outrow, IF x.t = "bool" THEN PyBool(x.v) ELSE x.v), ev)

\* TableTool.generateOutputRow
generateOutputRow(tool, r1, r2) ==
    GenerateLoop(tool, r1, r2, 1, <<PyInt(tool.nOutputRows + 1)>>, <<>>)

\* what generateOutputRow writes to the log before it re-raises
ErrorLog(tool) ==
    <<Debug("Error generating output row."), Debug("Input row 1: ")>>
    \o (IF tool.ninputs = 2 THEN <<Debug("Input row 2: ")>> ELSE <<>>)
    \o <<Debug("Function: ")>>

\* str(x) of a cell of a row
Str(cell) ==
    IF cell # <<>> /\ cell[1] = "int" THEN StrInt(cell[2])
    ELSE IF cell # <<>> /\ cell[1] = "bool"
    THEN (IF cell[2] THEN <<"T", "r", "u", "e">> ELSE <<"F", "a", "l", "s", "e">>)
    ELSE cell

\* the line TableTool.writeOutput writes for a row
OutputLine(row) == Join(<<TAB>>, [i \in 1..Len(row) |-> Str(row[i])]) \o <<NL>>


\* row = self.generateOutputRow(r1, r2); if row is not None:
\* self.writeOutput(row[1:]) -- the tool and the output file afterwards
Written(tool, out, g) ==
    [tool      |-> IF g.row # None THEN [tool EXCEPT !.nOutputRows = @ + 1] ELSE tool,
     ofd       |-> IF g.row # None THEN Append(out, OutputLine(From1(g.row))) ELSE out,
     log       |-> IF g.raised THEN ErrorLog(tool) ELSE <<>>,
     row       |-> g.row,
     raised    |-> g.raised,
     evaluated |-> g.evaluated]
Emit(tool, out, r1, r2) == Written(tool, out, generateOutputRow(tool, r1, r2))

----------------------------------------------------------------------------
(* TFilter                                                                 *)

FilterTexts == { <<"a", TAB, "b">>, <<"b", TAB, "a">>, <<"a">> }
FilterFiles == FilesOf(FilterTexts, MaxLines)

FilterArgs ==
    { <<>>,
      <<Arg(TRUE, "IN[1]=='a'")>>,
      <<Arg(FALSE, "IN[1]")>>,
      <<Arg(FALSE, "IN[1]=='a'")>>,
      <<Arg(TRUE, "IN[1]=='a'"), Arg(FALSE, "IN[2]")>>,
      <<Arg(FALSE, "IN[2]"), Arg(TRUE, "IN[1]=='a'")>>,
      <<Arg(TRUE, "IN[1]=='a'"), Arg(FALSE, "IN[9]")>>,
      <<Arg(TRUE, "IN[1]=='a'"), Arg(TRUE, "IN[2]")>>,
      <<Arg(FALSE, "(IN[1],IN[1])"), Arg(TRUE, "IN[2]"), Arg(FALSE, "IN[1:]")>>,
      <<Arg(FALSE, "IN[1:]"), Arg(TRUE, "IN[1]=='a'"), Arg(FALSE, "IN[1]")>> }

\* TFilter(argv): the input file is opened by openFiles
TFilterInit ==
    /\ \E lines \in FilterFiles, args \in FilterArgs :
          /\ self = TableTool(1, args) @@ [tool |-> "TFilter", args |-> args]
          /\ t1 = TableFileIterator_open(TableFileIterator_init, File("path", "f1", lines))
    /\ t2 = TableFileIterator_init
    /\ ofd = <<>>
    /\ lfd = <<>>
    /\ pc = "go"
    /\ returned = <<>>
    /\ evalLog = <<>>

\* one turn of the loop of TFilter.go: an input row is read and filtered
TFilterRow ==
    /\ pc = "go"
    /\ LET r == TableFileIterator_nextRow(t1)
           e == Emit(self, ofd, r.row, None)
       IN  /\ r.row # None
           /\ t1' = r.it
           /\ self' = e.tool
           /\ ofd' = e.ofd
           /\ lfd' = lfd \o r.log \o e.log
           /\ pc' = IF e.raised THEN "crashed" ELSE "go"
           /\ returned' = Append(returned,
                  [in |-> r.row, out |-> e.row, raised |-> e.raised,
                   num |-> self.nOutputRows + 1, wrote |-> Len(e.ofd) - Len(ofd)])
           /\ evalLog' = e.evaluated
    /\ UNCHANGED t2

\* the loop ends when nextRow() returns None
TFilterEnd ==
    /\ pc = "go"
    /\ LET r == TableFileIterator_nextRow(t1)
       IN  /\ r.row = None
           /\ t1' = r.it
           /\ lfd' = lfd \o r.log
    /\ pc' = "done"
    /\ UNCHANGED <<self, t2, ofd, returned, evalLog>>

TFilterNext == TFilterRow \/ TFilterEnd

SpecFilter == TFilterInit /\ [][TFilterNext]_vars


----------------------------------------------------------------------------
(* The evaluation rule of the expressions, read off the arguments          *)

\* the last call of generateOutputRow and the value of each expression on
\* its input row
LastCall == returned[Len(returned)]
ExprValue(i) == Call(self.functions[i], LastCall.in, None)
\* the expressions that start with '?'
IsFilterExpr(i) == i <= Len(self.args) /\ self.args[i].q
FailingFilters ==
    {i \in 1..Len(self.functions) :
        IsFilterExpr(i) /\ ExprValue(i).t # "raise" /\ ~Truth(ExprValue(i))}
Raising == {i \in 1..Len(self.functions) : ExprValue(i).t = "raise"}
Least(S) == CHOOSE x \in S : \A y \in S : x <= y

\* the columns the generators from expression i on contribute
RECURSIVE GeneratedFrom(_)
GeneratedFrom(i) ==
    IF i > Len(self.functions) THEN <<>>
    ELSE IF IsFilterExpr(i) THEN GeneratedFrom(i + 1)
    ELSE LET x == ExprValue(i)
         IN  (CASE x.t \in {"list", "tuple"} -> x.v
                [] x.t = "bool" -> <<PyBool(x.v)>>
                [] OTHER -> <<x.v>>) \o GeneratedFrom(i + 1)

UpTo(n) == [i \in 1..n |-> i]

\* C2: generateOutputRow evaluates the expressions in the order given; the
\* first filter that evaluates false makes it return None, no output row
\* is written for that input row and no later expression is evaluated; if
\* no filter fails, the row is the output row number followed by the
\* generator values in order, a list or tuple giving one column per item.
C2_FiltersStopGeneratorsFill ==
    returned # <<>> =>
       /\ IsPrefix(evalLog, UpTo(Len(self.functions)))
       /\ (FailingFilters # {} /\ (\A r \in Raising : Least(FailingFilters) < r) =>
              /\ LastCall.out = None
              /\ ~LastCall.raised
              /\ LastCall.wrote = 0
              /\ evalLog = UpTo(Least(FailingFilters)))
       /\ (FailingFilters = {} /\ Raising = {} =>
              /\ LastCall.out = <<PyInt(LastCall.num)>> \o GeneratedFrom(1)
              /\ LastCall.wrote = 1
              /\ ofd[Len(ofd)] = OutputLine(GeneratedFrom(1))
              /\ evalLog = UpTo(Len(self.functions)))

\* a filter has just failed with a later expression left unevaluated,
\* after an earlier input row was written with three generated columns
C2_Witness ==
    /\ Len(returned) > 1
    /\ LastCall.out = None /\ ~LastCall.raised
    /\ Len(evalLog) < Len(self.functions)
    /\ Len(returned[1].out) > 3


----------------------------------------------------------------------------
(* TAggregate                                                              *)

\* TableTool.makeKey: the values of the given columns of a row
makeKey(row, colIndexes) == [i \in 1..Len(colIndexes) |-> row[colIndexes[i] + 1]]

\* _FUNC2CLASS
FUNC2CLASS(func) ==
    CASE func = "count" -> "Counter"
      [] func = "list"  -> "Concatenator"
      [] func = "first" -> "FirstValue"
      [] func = "last"  -> "LastValue"
      [] func \in {"sum", "sumsq", "min", "max", "mean", "avg"} -> "Statistics"

\* colIndex is None
NoColumn == -1

\* TAggregate.addGroupByColumn, for the column numbers parsed from one option
RECURSIVE addGroupByColumn(_, _)
addGroupByColumn(gbColumns, gcols) ==
    IF gcols = <<>> THEN gbColumns
    ELSE addGroupByColumn(
             IF \E i \in 1..Len(gbColumns) : gbColumns[i] = gcols[1]
             THEN gbColumns ELSE Append(gbColumns, gcols[1]),
             Tail(gcols))

\* TAggregate.addAggregation, for the specifier func[:col]
addAggregation(a, spec) ==
    IF FUNC2CLASS(spec.func) = "Statistics"
    THEN LET b == IF spec.col \notin DOMAIN a.col2stats
                  THEN [a EXCEPT !.col2stats = @ @@ (spec.col :> Len(a.accumulatorClasses)),
                                 !.accumulatorClasses = Append(@, "Statistics"),
                                 !.accumulatorColumns = Append(@, spec.col)]
                  ELSE a
         IN  [b EXCEPT !.outSpecifiers =
                           Append(@, [i |-> b.col2stats[spec.col], arg |-> spec.func])]
    ELSE [a EXCEPT !.outSpecifiers =
                       Append(@, [i |-> Len(a.accumulatorClasses), arg |-> "None"]),
                   !.accumulatorClasses = Append(@, FUNC2CLASS(spec.func)),
                   !.accumulatorColumns = Append(@, spec.col)]

\* TAggregate.processOptions: the loop over the -a options
RECURSIVE addAggregations(_, _)
addAggregations(a, specs) ==
    IF specs = <<>> THEN a ELSE addAggregations(addAggregation(a, specs[1]), Tail(specs))

\* the constructors of Counter, Concatenator, FirstValue, LastValue and
\* Statistics (n = 0 stands for n is None)
Accumulator(cls, colIndex) ==
    [cls |-> cls, colIndex |-> colIndex,
     count |-> 0, values |-> {},
     list |-> <<>>,
     value |-> None, first |-> TRUE,
     n |-> 0, sum |-> 0, min |-> 0, max |-> 0,
     raised |-> FALSE]

\* TAggregate.newAccumulatorList
newAccumulatorList(tool) ==
    [i \in 1..Len(tool.accumulatorClasses) |->
        Accumulator(tool.accumulatorClasses[i], tool.accumulatorColumns[i])]

\* float(value): the numbers the input files hold, ValueError otherwise
IsNumber(v) == v \in {<<"1">>, <<"2">>, <<"3">>}
Float(v) == CASE v = <<"1">> -> 1 [] v = <<"2">> -> 2 [] v = <<"3">> -> 3

Min2(x, y) == IF x < y THEN x ELSE y
Max2(x, y) == IF x < y THEN y ELSE x

\* the nextValue methods
nextValue(acc, value) ==
    CASE acc.cls = "Counter" ->
             [acc EXCEPT !.count = @ + 1,
                         !.values = IF acc.colIndex # NoColumn THEN @ \cup {value} ELSE @]
      [] acc.cls = "Concatenator" -> [acc EXCEPT !.list = Append(@, value)]
      [] acc.cls = "FirstValue" ->
             IF acc.first THEN [acc EXCEPT !.value = value, !.first = FALSE] ELSE acc
      [] acc.cls = "LastValue" -> [acc EXCEPT !.value = value]
      [] acc.cls = "Statistics" ->
             IF ~IsNumber(value) THEN [acc EXCEPT !.raised = TRUE]
             ELSE IF acc.n = 0
             THEN [acc EXCEPT !.n = 1, !.sum = Float(value),
                              !.min = Float(value), !.max = Float(value)]
             ELSE [acc EXCEPT !.n = @ + 1, !.sum = @ + Float(value),
                              !.min = Min2(@, Float(value)),
                              !.max = Max2(@, Float(value))]

\* Accumulator.nextRow
Accumulator_nextRow(acc, row) ==
    IF acc.colIndex = NoColumn THEN nextValue(acc, None)
    ELSE nextValue(acc, row[acc.colIndex + 1])

\* str(x) of a float that holds a whole number
StrFloat(x) == StrInt(x) \o <<".", "0">>

\* str(apnd) in TAggregate.go: the accumulator itself, or the field of a
\* Statistics that the specifier names
AggregateStr(aggs, spec) ==
    LET acc == aggs[spec.i + 1]
    IN  IF spec.arg = "None"
        THEN CASE acc.cls = "Counter" ->
                      StrInt(IF acc.colIndex # NoColumn THEN Cardinality(acc.values)
                             ELSE acc.count)
               [] acc.cls = "Concatenator" -> Join(<<",">>, acc.list)
               [] acc.cls = "FirstValue" -> acc.value
               [] acc.cls = "LastValue" -> acc.value
        ELSE CASE spec.arg = "sum" -> StrFloat(acc.sum)
               [] spec.arg = "min" -> StrFloat(acc.min)
               [] spec.arg = "max" -> StrFloat(acc.max)

\* the position of a key in the partitions dictionary, 0 when it is absent
Lookup(partitions, key) ==
    IF \E i \in 1..Len(partitions) : partitions[i].key = key
    THEN CHOOSE i \in 1..Len(partitions) : partitions[i].key = key
    ELSE 0

\* processRow that starts a new partition for every row
processRowNoLookup(tool, row) ==
    LET gbkey == makeKey(row, tool.gbColumns)
        parts == Append(tool.partitions,
                        [key |-> gbkey, aggs |-> newAccumulatorList(tool)])
    IN  [tool EXCEPT !.partitions =
            [parts EXCEPT ![Len(parts)].aggs =
                [i \in 1..Len(@) |-> Accumulator_nextRow(@[i], row)]]]

\* TAggregate.processRow
processRow(tool, row) ==
    LET gbkey == makeKey(row, tool.gbColumns)
        parts == IF Lookup(tool.partitions, gbkey) = 0
                 THEN Append(tool.partitions,
                             [key |-> gbkey, aggs |-> newAccumulatorList(tool)])
                 ELSE tool.partitions
        k == Lookup(parts, gbkey)
    IN  [tool EXCEPT !.partitions =
            [parts EXCEPT ![k].aggs =
                [i \in 1..Len(@) |-> Accumulator_nextRow(@[i], row)]]]

\* the inputs: rows of a name and a number, group-by options, -a options
AggTexts == { <<"a", TAB, "1">>, <<"a", TAB, "2">>, <<"b", TAB, "1">>, <<"b">> }
AggFiles == FilesOf(AggTexts, MaxLines)
AggGroupBy == { <<>>, <<1>>, <<2>>, <<1, 2>>, <<2, 1, 2>> }
AggSpec(func, col) == [func |-> func, col |-> col]
AggSpecs ==
    { <<>>,
      <<AggSpec("count", NoColumn)>>,
      <<AggSpec("count", 2), AggSpec("list", 2)>>,
      <<AggSpec("sum", 2), AggSpec("first", 2), AggSpec("max", 2)>>,
      <<AggSpec("last", 1), AggSpec("min", 2)>> }
AggArgs == { <<>>, <<Arg(TRUE, "IN[1]=='a'")>> }

\* TAggregate(argv)
TAggregateInit ==
    /\ \E lines \in AggFiles, g \in AggGroupBy, a \in AggSpecs, args \in AggArgs :
          /\ self = addAggregations(
                       TableTool(1, args)
                       @@ [tool |-> "TAggregate", args |-> args,
                           groupBy |-> g, aggSpecs |-> a,
                           gbColumns |-> addGroupByColumn(<<>>, g),
                           accumulatorClasses |-> <<>>, accumulatorColumns |-> <<>>,
                           col2stats |-> <<>>, outSpecifiers |-> <<>>,
                           partitions |-> <<>>, rownum |-> 0],
                       a)
          /\ t1 = TableFileIterator_open(TableFileIterator_init, File("path", "f1", lines))
    /\ t2 = TableFileIterator_init
    /\ ofd = <<>>
    /\ lfd = <<>>
    /\ pc = "readInput"
    /\ returned = <<>>
    /\ evalLog = <<>>

\* row[c] raises IndexError for one of the columns a tool was given
IndexError(row, cols) == \E i \in 1..Len(cols) : cols[i] # NoColumn /\ cols[i] + 1 > Len(row)

\* TAggregate.readInput: one turn of the loop; an IndexError of row[c] or
\* a ValueError of float() ends the program
TAggregateReadRow ==
    /\ pc = "readInput"
    /\ LET r == TableFileIterator_nextRow(t1)
           bad == IndexError(r.row, self.gbColumns \o self.accumulatorColumns)
           next == IF bad THEN self ELSE processRow(self, r.row)
       IN  /\ r.row # None
           /\ t1' = r.it
           /\ lfd' = lfd \o r.log
           /\ self' = next
           /\ returned' = Append(returned, r.row)
           /\ pc' = IF bad \/ \E i \in 1..Len(next.partitions) :
                                 \E j \in 1..Len(next.partitions[i].aggs) :
                                     next.partitions[i].aggs[j].raised
                    THEN "crashed" ELSE "readInput"
    /\ UNCHANGED <<t2, ofd, evalLog>>

\* TAggregate.readInput: the loop ends
TAggregateReadEnd ==
    /\ pc = "readInput"
    /\ LET r == TableFileIterator_nextRow(t1)
       IN  /\ r.row = None
           /\ t1' = r.it
           /\ lfd' = lfd \o r.log
    /\ pc' = "write"
    /\ UNCHANGED <<self, t2, ofd, returned, evalLog>>

\* TAggregate.go: one turn of the loop over the partitions
TAggregateWriteRow ==
    /\ pc = "write"
    /\ self.rownum < Len(self.partitions)
    /\ LET rownum == self.rownum + 1
           part == self.partitions[rownum]
           aggrow == <<PyInt(rownum)>> \o part.key
                     \o [i \in 1..Len(self.outSpecifiers) |->
                            AggregateStr(part.aggs, self.outSpecifiers[i])]
           e == Emit(self, ofd, aggrow, None)
       IN  /\ self' = [e.tool EXCEPT !.rownum = rownum]
           /\ ofd' = e.ofd
           /\ lfd' = lfd \o e.log
           /\ evalLog' = e.evaluated
           /\ pc' = IF e.raised THEN "crashed" ELSE "write"
    /\ UNCHANGED <<t1, t2, returned>>

\* TAggregate.go: the loop over the partitions ends
TAggregateWriteEnd ==
    /\ pc = "write"
    /\ self.rownum = Len(self.partitions)
    /\ pc' = "done"
    /\ UNCHANGED <<self, t1, t2, ofd, lfd, returned, evalLog>>

TAggregateNext ==
    TAggregateReadRow \/ TAggregateReadEnd \/ TAggregateWriteRow \/ TAggregateWriteEnd

SpecAggregate == TAggregateInit /\ [][TAggregateNext]_vars


----------------------------------------------------------------------------
(* Aggregation, read off the options and the input rows                    *)

\* the rows the tool read from its input, and the items of a sequence
InputRows == returned
Items(q) == {q[i] : i \in 1..Len(q)}

\* the group-by columns in the order they were first named
GroupColumns ==
    LET g == self.groupBy
        firsts == {i \in 1..Len(g) : \A j \in 1..(i-1) : g[j] # g[i]}
        order == Ascending(firsts)
    IN  [k \in 1..Len(order) |-> g[order[k]]]
GroupOf(row) == [i \in 1..Len(GroupColumns) |-> row[GroupColumns[i] + 1]]
Groups == {GroupOf(r) : r \in Items(InputRows)}
\* the rows of one partition, in input order
PartitionRows(k) == SelectSeq(InputRows, LAMBDA r : GroupOf(r) = k)

RECURSIVE SumOf(_)
SumOf(q) == IF q = <<>> THEN 0 ELSE Float(q[1]) + SumOf(Tail(q))

\* the text of one aggregate over the rows of a partition
AggregateOf(spec, rows) ==
    LET vals == [i \in 1..Len(rows) |-> rows[i][spec.col + 1]]
        nums == {Float(v) : v \in Items(vals)}
    IN  CASE spec.func = "count" /\ spec.col = NoColumn -> StrInt(Len(rows))
          [] spec.func = "count" /\ spec.col # NoColumn -> StrInt(Cardinality(Items(vals)))
          [] spec.func = "list"  -> Join(<<",">>, vals)
          [] spec.func = "first" -> vals[1]
          [] spec.func = "last"  -> vals[Len(vals)]
          [] spec.func = "sum"   -> StrFloat(SumOf(vals))
          [] spec.func = "min"   -> StrFloat(CHOOSE x \in nums : \A y \in nums : x <= y)
          [] spec.func = "max"   -> StrFloat(CHOOSE x \in nums : \A y \in nums : x >= y)

\* the columns of the output row of a partition
AggregateRow(k) ==
    k \o [i \in 1..Len(self.aggSpecs) |-> AggregateOf(self.aggSpecs[i], PartitionRows(k))]

\* a row passes the filters given on the command line
PassesFilters(cols) ==
    \A i \in 1..Len(self.args) :
        self.args[i].q => Truth(Call(makeFunction(self.args[i]), <<PyInt(0)>> \o cols, None))

\* C3: TAggregate writes exactly one output row for each distinct
\* combination of group-by values that occurs in the input (and passes the
\* command-line filters, when filters are given), and none for other
\* combinations; the row holds the group-by values in the order specified,
\* then one column per aggregation specifier in the order specified, each
\* computed over the rows of that partition only.
C3_OneRowPerPartition ==
    pc = "done" =>
       LET wanted == {k \in Groups : PassesFilters(AggregateRow(k))}
       IN  /\ Len(ofd) = Cardinality(wanted)
           /\ Items(ofd) = {OutputLine(AggregateRow(k)) : k \in wanted}

\* a run without filters over three rows in two partitions, with two
\* group-by columns and three aggregates
C3_Witness ==
    /\ pc = "done"
    /\ self.args = <<>>
    /\ Len(InputRows) = 3 /\ Len(ofd) = 2
    /\ Len(GroupColumns) = 2 /\ Len(self.aggSpecs) = 3


----------------------------------------------------------------------------
(* TJoin                                                                   *)

\* [nullString] * n
Repeat(x, n) == [i \in 1..n |-> x]

\* TJoin.pickInnerOuter: the tool and the two iterators afterwards
pickInnerOuter(tool, a, b) ==
    LET selfJoin == a.fileDesc.id = b.fileDesc.id
        t1sz == TableFileIterator_fileSize(a)
        t2sz == TableFileIterator_fileSize(b)
    IN  IF selfJoin
        THEN [tool |-> [tool EXCEPT !.swappedInputs = FALSE, !.selfJoin = TRUE],
              t1 |-> a, t2 |-> b, log |-> <<>>]
        ELSE IF t1sz # -1 /\ (t2sz = -1 \/ t1sz < t2sz)
        THEN [tool |-> [tool EXCEPT !.swappedInputs = TRUE, !.selfJoin = FALSE,
                                    !.jcols1 = tool.jcols2, !.jcols2 = tool.jcols1,
                                    !.doLeftOuter = tool.doRightOuter,
                                    !.doRightOuter = tool.doLeftOuter],
              t1 |-> b, t2 |-> a, log |-> <<Debug("Swapping input tables.")>>]
        ELSE [tool |-> [tool EXCEPT !.swappedInputs = FALSE, !.selfJoin = FALSE],
              t1 |-> a, t2 |-> b, log |-> <<>>]

\* TJoin.processPair: the tool, the output and the log afterwards
processPair(tool, out, a, b, r1, r2) ==
    Emit(tool, out,
         IF tool.swappedInputs
         THEN (IF r2 = None THEN Repeat(tool.nullString, getNCols(b) + 1) ELSE r2)
         ELSE (IF r1 = None THEN Repeat(tool.nullString, getNCols(a) + 1) ELSE r1),
         IF tool.swappedInputs
         THEN (IF r1 = None THEN Repeat(tool.nullString, getNCols(a) + 1) ELSE r1)
         ELSE (IF r2 = None THEN Repeat(tool.nullString, getNCols(b) + 1) ELSE r2))

\* the state of a loop of scanOuter after one more pair was processed
After(st, e) ==
    [tool |-> e.tool, ofd |-> e.ofd, log |-> st.log \o e.log,
     raised |-> e.raised, evaluated |-> e.evaluated]

\* loadInner with the row the iterator returned
Loaded(tool, row) ==
    [tool EXCEPT
       !.inner = IF Lookup(tool.inner, makeKey(row, tool.jcols2)) = 0
                 THEN Append(@, [key |-> makeKey(row, tool.jcols2), rows |-> <<row>>])
                 ELSE [@ EXCEPT ![Lookup(tool.inner, makeKey(row, tool.jcols2))].rows =
                                    Append(@, row)],
       !.innerList = IF tool.doRightOuter THEN Append(@, row) ELSE @]

\* the while loop of loadInner: the rows of the inner table by key, and
\* in file order when a right outer join is asked for
RECURSIVE LoadInnerLoop(_, _)
LoadInnerStep(tool, log, r) ==
    IF r.row = None
    THEN [tool |-> tool, it |-> r.it, log |-> log \o r.log, raised |-> FALSE]
    ELSE IF IndexError(r.row, tool.jcols2)
    THEN [tool |-> tool, it |-> r.it, log |-> log \o r.log, raised |-> TRUE]
    ELSE LoadInnerLoop(Loaded(tool, r.row), [it |-> r.it, log |-> log \o r.log])
LoadInnerLoop(tool, at) == LoadInnerStep(tool, at.log, TableFileIterator_nextRow(at.it))

\* self.innerList[ innerrow[0]-1 ] = None, after the pair was processed
Marked(st, e, at) ==
    IF e.raised \/ ~e.tool.doRightOuter THEN After(st, e)
    ELSE IF at > Len(e.tool.innerList) THEN [After(st, e) EXCEPT !.raised = TRUE]
    ELSE [After(st, e) EXCEPT !.tool.innerList[at] = None]

\* the loop of scanOuter over the inner rows with the key of an outer
\* row: each pair is processed and, for a right outer join, the inner row
\* is marked as seen in innerList at the index its row number gives
RECURSIVE MatchLoop(_, _, _, _, _, _)
MatchLoop(st, a, b, outerrow, rows, i) ==
    IF i > Len(rows) \/ st.raised THEN st
    ELSE MatchLoop(Marked(st, processPair(st.tool, st.ofd, a, b, outerrow, rows[i]),
                          IntOf(rows[i][1])),
                   a, b, outerrow, rows, i + 1)

\* the last loop of scanOuter: the inner rows never seen are written
\* with a null outer row
RECURSIVE UnseenLoop(_, _, _, _, _)
UnseenLoop(st, a, b, unseen, i) ==
    IF i > Len(unseen) \/ st.raised THEN st
    ELSE UnseenLoop(After(st, processPair(st.tool, st.ofd, a, b, None, unseen[i])),
                    a, b, unseen, i + 1)

\* the self-join loops of scanOuter over the rows of one key
RECURSIVE SelfJoinRows(_, _, _, _, _, _)
SelfJoinRows(st, a, b, rows, i, j) ==
    IF i > Len(rows) \/ st.raised THEN st
    ELSE IF j > Len(rows) THEN SelfJoinRows(st, a, b, rows, i + 1, 1)
    ELSE SelfJoinRows(After(st, processPair(st.tool, st.ofd, a, b, rows[i], rows[j])),
                      a, b, rows, i, j + 1)

\* the self-join loop of scanOuter over the keys
RECURSIVE SelfJoinKeys(_, _, _, _)
SelfJoinKeys(st, a, b, k) ==
    IF k > Len(st.tool.inner) \/ st.raised THEN st
    ELSE SelfJoinKeys(SelfJoinRows(st, a, b, st.tool.inner[k].rows, 1, 1), a, b, k + 1)

\* the state a loop of scanOuter starts in
Start(tool, out, log, raised) ==
    [tool |-> tool, ofd |-> out, log |-> log, raised |-> raised, evaluated |-> <<>>]

\* the body of the while loop of scanOuter for one outer row
ScanOuterRow(tool, out, r, b, k) ==
    IF k # 0
    THEN MatchLoop(Start(tool, out, r.log, FALSE), r.it, b, r.row, tool.inner[k].rows, 1)
    ELSE IF tool.doLeftOuter
    THEN After(Start(tool, out, r.log, FALSE), processPair(tool, out, r.it, b, r.row, None))
    ELSE Start(tool, out, r.log, FALSE)

\* the files made of the given lines, every line ending with a newline
TextFiles(texts, n) ==
    {[i \in 1..Len(q) |-> q[i] \o <<NL>>] : q \in SeqsUpTo(texts, n)}

\* the inputs: two-column rows over a and b, and a one-column line
JoinTexts == { <<"a", TAB, "b">>, <<"b", TAB, "a">>, <<"a">> }
JoinFiles == TextFiles(JoinTexts, MaxLines)
\* --k1 / --k2
JoinColumns == { [k1 |-> <<>>, k2 |-> <<>>], [k1 |-> <<1>>, k2 |-> <<2>>] }
JoinArgs == { <<>>, <<Arg(TRUE, "IN1[1]=='a'")>> }
\* how the two inputs are given: two file names; a file name and "-";
\* "-" twice, which makes both tables the one read from standard input
JoinInputs == { "paths", "stdin2", "same" }

\* TJoin(argv)
TJoinInit ==
    /\ \E lines1 \in JoinFiles, lines2 \in JoinFiles, k \in JoinColumns,
          args \in JoinArgs, dlo \in BOOLEAN, dro \in BOOLEAN, how \in JoinInputs :
          /\ how = "same" => lines2 = lines1
          /\ self = TableTool(2, args)
                    @@ [tool |-> "TJoin", args |-> args,
                        k1 |-> k.k1, k2 |-> k.k2, dlo |-> dlo, dro |-> dro,
                        jcols1 |-> k.k1, jcols2 |-> k.k2,
                        doLeftOuter |-> dlo, doRightOuter |-> dro,
                        swappedInputs |-> FALSE, selfJoin |-> FALSE,
                        inner |-> <<>>, innerList |-> <<>>,
                        nullString |-> <<>>]
          /\ t1 = TableFileIterator_open(TableFileIterator_init,
                     IF how = "same" THEN File("stdin", "stdin", lines1)
                     ELSE File("path", "f1", lines1))
          /\ t2 = TableFileIterator_open(TableFileIterator_init,
                     IF how = "paths" THEN File("path", "f2", lines2)
                     ELSE File("stdin", "stdin", lines2))
    /\ ofd = <<>>
    /\ lfd = <<>>
    /\ pc = "loadInner"
    /\ returned = <<>>
    /\ evalLog = <<>>

\* the tool's state after loadInner
LoadedInner(p, l) ==
    /\ self' = l.tool
    /\ t1' = p.t1
    /\ t2' = l.it
    /\ lfd' = lfd \o l.log
    /\ pc' = IF l.raised THEN "crashed" ELSE "scanOuter"
    /\ UNCHANGED <<ofd, returned, evalLog>>

\* pickInnerOuter, then the loading of the inner table
PickedAndLoaded(p) == LoadedInner(p, LoadInnerLoop(p.tool, [it |-> p.t2, log |-> p.log]))

\* TJoin.loadInner
TJoinLoadInner ==
    /\ pc = "loadInner"
    /\ PickedAndLoaded(pickInnerOuter(self, t1, t2))

\* the tool's state after a step of scanOuter that left the tool in st
Scanned(st, it, next) ==
    /\ t1' = it
    /\ self' = st.tool
    /\ ofd' = st.ofd
    /\ lfd' = lfd \o st.log
    /\ evalLog' = st.evaluated
    /\ pc' = IF st.raised THEN "crashed" ELSE next
    /\ UNCHANGED <<t2, returned>>

\* TJoin.scanOuter, both tables being the same one
TJoinScanSelf ==
    /\ pc = "scanOuter"
    /\ self.selfJoin
    /\ Scanned(SelfJoinKeys(Start(self, ofd, <<>>, FALSE), t1, t2, 1), t1, "done")

\* one turn of the while loop of scanOuter, r being what nextRow returned
ScanRow(r) ==
    /\ r.row # None
    /\ IF IndexError(r.row, self.jcols1)
       THEN Scanned(Start(self, ofd, r.log, TRUE), r.it, "scanOuter")
       ELSE Scanned(ScanOuterRow(self, ofd, r, t2,
                                 Lookup(self.inner, makeKey(r.row, self.jcols1))),
                    r.it, "scanOuter")

\* TJoin.scanOuter: one turn of the loop over the outer table
TJoinScanRow ==
    /\ pc = "scanOuter"
    /\ ~self.selfJoin
    /\ ScanRow(TableFileIterator_nextRow(t1))

\* the end of scanOuter, r being what nextRow returned
ScanEnd(r) ==
    /\ r.row = None
    /\ IF self.doRightOuter
       THEN Scanned(UnseenLoop(Start(self, ofd, r.log, FALSE), r.it, t2,
                               SelectSeq(self.innerList, LAMBDA x : x # None), 1),
                    r.it, "done")
       ELSE Scanned(Start(self, ofd, r.log, FALSE), r.it, "done")

\* TJoin.scanOuter: the outer table is exhausted
TJoinScanEnd ==
    /\ pc = "scanOuter"
    /\ ~self.selfJoin
    /\ ScanEnd(TableFileIterator_nextRow(t1))

TJoinNext == TJoinLoadInner \/ TJoinScanSelf \/ TJoinScanRow \/ TJoinScanEnd

SpecJoin == TJoinInit /\ [][TJoinNext]_vars

----------------------------------------------------------------------------
(* The join, read off the options and the two input files                  *)

\* the lines of the file given as T1 and of the file given as T2
Table1 == (IF self.swappedInputs THEN t2 ELSE t1).fileDesc.lines
Table2 == (IF self.swappedInputs THEN t1 ELSE t2).fileDesc.lines

\* the rows of a table: the columns of its data lines that have the
\* column count of the first one, in file order
ColumnsOf(line) == Split(DropLast(line), TAB)
TableRows(f) ==
    IF DataLines(f) = {} THEN <<>>
    ELSE LET good == Ascending(GoodLines(f))
         IN  [i \in 1..Len(good) |-> ColumnsOf(f[good[i]])]
TableWidth(f) == IF DataLines(f) = {} THEN 0 ELSE FirstWidth(f)

\* the values of a row in the key columns
KeyOf(cols, k) == [i \in 1..Len(k) |-> cols[k[i]]]
\* every key column is a column of the table
KeysExist(f, k) == TableRows(f) = <<>> \/ \A i \in 1..Len(k) : k[i] <= TableWidth(f)

\* a pair of rows passes the filters given on the command line
PassesPairFilters(c1, c2) ==
    \A i \in 1..Len(self.args) :
        self.args[i].q =>
            Truth(Call(makeFunction(self.args[i]), <<PyInt(0)>> \o c1, <<PyInt(0)>> \o c2))

\* the pairs of row indexes the join is to output
JoinPairs ==
    {p \in (1..Len(TableRows(Table1))) \X (1..Len(TableRows(Table2))) :
        /\ KeyOf(TableRows(Table1)[p[1]], self.k1) = KeyOf(TableRows(Table2)[p[2]], self.k2)
        /\ PassesPairFilters(TableRows(Table1)[p[1]], TableRows(Table2)[p[2]])}
PairLine(p) == OutputLine(TableRows(Table1)[p[1]] \o TableRows(Table2)[p[2]])

\* the rows of one table in no pair, and the lines that pad them
Unpaired1 == {i \in 1..Len(TableRows(Table1)) : \A p \in JoinPairs : p[1] # i}
Unpaired2 == {j \in 1..Len(TableRows(Table2)) : \A p \in JoinPairs : p[2] # j}
LeftLine(i) ==
    OutputLine(TableRows(Table1)[i] \o Repeat(self.nullString, TableWidth(Table2)))
RightLine(j) ==
    OutputLine(Repeat(self.nullString, TableWidth(Table1)) \o TableRows(Table2)[j])

\* how many times a line is in the output
Count(q, x) == Cardinality({i \in 1..Len(q) : q[i] = x})

JoinEnded == pc \in {"done", "crashed"}
JoinIsDefined == KeysExist(Table1, self.k1) /\ KeysExist(Table2, self.k2)

\* the output is the qualifying pairs, each once, in any order
OutputIsThePairs ==
    /\ pc = "done"
    /\ Len(ofd) = Cardinality(JoinPairs)
    /\ \A x \in Items(ofd) \cup {PairLine(p) : p \in JoinPairs} :
          Count(ofd, x) = Cardinality({p \in JoinPairs : PairLine(p) = x})

\* C4: without outer flags, TJoin outputs one row for every pair (r1, r2),
\* r1 a row of T1 and r2 a row of T2, that has equal values in the
\* corresponding --k1/--k2 join columns and passes all command-line
\* filters, and outputs no other row; with no join columns and no filters
\* the output is the full cross product of T1 and T2.
C4_JoinOutputsTheMatchingPairs ==
    (JoinEnded /\ JoinIsDefined /\ ~self.dlo /\ ~self.dro) => OutputIsThePairs

\* C4 for two tables read from different files: there it holds
C4_HoldsForTwoTables ==
    (JoinEnded /\ JoinIsDefined /\ ~self.dlo /\ ~self.dro /\ ~self.selfJoin)
        => OutputIsThePairs

\* C4 for one table joined with itself on the same column list: it holds
C4_HoldsForSelfJoinOnOneKey ==
    (JoinEnded /\ JoinIsDefined /\ ~self.dlo /\ ~self.dro /\ self.selfJoin
        /\ self.k1 = self.k2) => OutputIsThePairs

\* the output is the pairs and, under the outer flags, the padded rows of
\* the rows in no pair, each once, in any order
OutputIsThePairsAndThePadded ==
    LET left  == IF self.dlo THEN Unpaired1 ELSE {}
        right == IF self.dro THEN Unpaired2 ELSE {}
        wanted == {PairLine(p) : p \in JoinPairs} \cup {LeftLine(i) : i \in left}
                      \cup {RightLine(j) : j \in right}
    IN  /\ pc = "done"
        /\ Len(ofd) = Cardinality(JoinPairs) + Cardinality(left) + Cardinality(right)
        /\ \A x \in Items(ofd) \cup wanted :
              Count(ofd, x) = Cardinality({p \in JoinPairs : PairLine(p) = x})
                              + Cardinality({i \in left : LeftLine(i) = x})
                              + Cardinality({j \in right : RightLine(j) = x})

\* C5: with --left-outer (respectively --right-outer), every row of T1
\* (respectively T2) that forms no output pair with any row of the other
\* table is output exactly once, joined to a row of null strings in the other
\* table's columns, and no row that does form a pair is also output
\* null-padded; this holds for every input, inner tables with skipped
\* wrong-column-count lines included, whichever table is the inner.  Stated
\* here for two tables read from different files and no filters.
C5_OuterRowsArePaddedOnce ==
    (JoinEnded /\ JoinIsDefined /\ ~self.selfJoin /\ self.args = <<>>
        /\ (self.dlo \/ self.dro)) => OutputIsThePairsAndThePadded

\* C5 for inner tables from which no line was skipped: there it holds
C5_HoldsWithoutSkippedLines ==
    (JoinEnded /\ JoinIsDefined /\ ~self.selfJoin /\ self.args = <<>>
        /\ (self.dlo \/ self.dro) /\ BadLines(t2.fileDesc.lines) = {})
        => OutputIsThePairsAndThePadded

----------------------------------------------------------------------------
(* TDifference, TIntersection, TUnion                                      *)

DIUTools == { "TDifference", "TIntersection", "TUnion" }
DIUTexts == { <<"a", TAB, "b">>, <<"b", TAB, "a">>, <<"a">> }
DIUFiles == TextFiles(DIUTexts, MaxLines)
\* --k1 / --k2
DIUColumns == { [k1 |-> <<>>, k2 |-> <<>>], [k1 |-> <<1>>, k2 |-> <<1>>],
                [k1 |-> <<1>>, k2 |-> <<2>>] }
DIUArgs == { <<>>, <<Arg(TRUE, "IN1[1]=='a'")>> }

\* TDiffIntUnion.__init__ with the two files opened; keys is the
\* dictionary go() fills
TDiffIntUnionInit ==
    /\ \E tool \in DIUTools, lines1 \in DIUFiles, lines2 \in DIUFiles,
          k \in DIUColumns, args \in DIUArgs :
          /\ self = TableTool(2, args)
                    @@ [tool |-> tool, args |-> args,
                        kcols1 |-> k.k1, kcols2 |-> k.k2, keys |-> {}]
          /\ t1 = TableFileIterator_open(TableFileIterator_init, File("path", "f1", lines1))
          /\ t2 = TableFileIterator_open(TableFileIterator_init, File("path", "f2", lines2))
          /\ pc = IF tool = "TUnion" THEN "first" ELSE "keys"
    /\ ofd = <<>>
    /\ lfd = <<>>
    /\ returned = <<>>
    /\ evalLog = <<>>

\* keys[key] = 1 that stores nothing
KeyNotAdded(tool, row, cols) == tool
\* keys[key] = 1
KeyAdded(tool, row, cols) == [tool EXCEPT !.keys = @ \cup {makeKey(row, cols)}]

\* key in keys that asks only whether there are keys
HasSomeKey(tool, row, cols) == tool.keys # {}
\* key in keys
HasKey(tool, row, cols) == makeKey(row, cols) \in tool.keys

\* TDiffIntUnion.output; the row read came with the log lines in log
DIUOutput(e, log) ==
    /\ self' = e.tool
    /\ ofd' = e.ofd
    /\ lfd' = lfd \o log \o e.log
    /\ evalLog' = e.evaluated
    /\ pc' = IF e.raised THEN "crashed" ELSE pc
DIUSkip(tool, log, crashed) ==
    /\ self' = tool
    /\ lfd' = lfd \o log
    /\ pc' = IF crashed THEN "crashed" ELSE pc
    /\ UNCHANGED <<ofd, evalLog>>
\* the end of a while loop
DIULoopEnd(r, next) ==
    /\ r.row = None
    /\ lfd' = lfd \o r.log
    /\ pc' = next
    /\ UNCHANGED <<self, ofd, evalLog, returned>>

\* the first loop of TDifference.go and of TIntersection.go: one row of T2
DIUKeysRow(r) ==
    /\ r.row # None
    /\ t2' = r.it
    /\ IF IndexError(r.row, self.kcols2)
       THEN DIUSkip(self, r.log, TRUE)
       ELSE DIUSkip(KeyAdded(self, r.row, self.kcols2), r.log, FALSE)
    /\ UNCHANGED <<t1, returned>>

\* the second loop of TDifference.go and of TIntersection.go: one row of
\* T1, written when its key is in keys (TIntersection) or is not (TDifference)
DIUScanRow(r, whenIn) ==
    /\ r.row # None
    /\ t1' = r.it
    /\ IF IndexError(r.row, self.kcols1)
       THEN DIUSkip(self, r.log, TRUE)
       ELSE IF HasKey(self, r.row, self.kcols1) = whenIn
       THEN DIUOutput(Emit(self, ofd, r.row, <<>>), r.log)
       ELSE DIUSkip(self, r.log, FALSE)
    /\ UNCHANGED <<t2, returned>>

\* TDifference.go
TDifferenceKeysRow ==
    /\ self.tool = "TDifference" /\ pc = "keys"
    /\ DIUKeysRow(TableFileIterator_nextRow(t2))
TDifferenceKeysEnd ==
    /\ self.tool = "TDifference" /\ pc = "keys"
    /\ DIULoopEnd(TableFileIterator_nextRow(t2), "scan")
    /\ t2' = TableFileIterator_nextRow(t2).it /\ UNCHANGED t1
TDifferenceScanRow ==
    /\ self.tool = "TDifference" /\ pc = "scan"
    /\ DIUScanRow(TableFileIterator_nextRow(t1), FALSE)
TDifferenceScanEnd ==
    /\ self.tool = "TDifference" /\ pc = "scan"
    /\ DIULoopEnd(TableFileIterator_nextRow(t1), "done")
    /\ t1' = TableFileIterator_nextRow(t1).it /\ UNCHANGED t2

\* TIntersection.go
TIntersectionKeysRow ==
    /\ self.tool = "TIntersection" /\ pc = "keys"
    /\ DIUKeysRow(TableFileIterator_nextRow(t2))
TIntersectionKeysEnd ==
    /\ self.tool = "TIntersection" /\ pc = "keys"
    /\ DIULoopEnd(TableFileIterator_nextRow(t2), "scan")
    /\ t2' = TableFileIterator_nextRow(t2).it /\ UNCHANGED t1
TIntersectionScanRow ==
    /\ self.tool = "TIntersection" /\ pc = "scan"
    /\ DIUScanRow(TableFileIterator_nextRow(t1), TRUE)
TIntersectionScanEnd ==
    /\ self.tool = "TIntersection" /\ pc = "scan"
    /\ DIULoopEnd(TableFileIterator_nextRow(t1), "done")
    /\ t1' = TableFileIterator_nextRow(t1).it /\ UNCHANGED t2

\* the first loop of TUnion.go: a row of T1 is written and its key kept
UnionFirstRow(r) ==
    /\ r.row # None
    /\ t1' = r.it
    /\ IF IndexError(r.row, self.kcols1)
       THEN DIUSkip(self, r.log, TRUE)
       ELSE DIUOutput(Emit(KeyAdded(self, r.row, self.kcols1), ofd, r.row, <<>>), r.log)
    /\ UNCHANGED <<t2, returned>>

\* the second loop of TUnion.go: a row of T2 is written when its key is
\* not in keys
UnionSecondRow(r) ==
    /\ r.row # None
    /\ t2' = r.it
    /\ IF IndexError(r.row, self.kcols2)
       THEN DIUSkip(self, r.log, TRUE)
       ELSE IF ~HasKey(self, r.row, self.kcols2)
       THEN DIUOutput(Emit(self, ofd, r.row, <<>>), r.log)
       ELSE DIUSkip(self, r.log, FALSE)
    /\ UNCHANGED <<t1, returned>>

\* TUnion.go
TUnionFirstRow ==
    /\ self.tool = "TUnion" /\ pc = "first"
    /\ UnionFirstRow(TableFileIterator_nextRow(t1))
TUnionFirstEnd ==
    /\ self.tool = "TUnion" /\ pc = "first"
    /\ DIULoopEnd(TableFileIterator_nextRow(t1), "second")
    /\ t1' = TableFileIterator_nextRow(t1).it /\ UNCHANGED t2
TUnionSecondRow ==
    /\ self.tool = "TUnion" /\ pc = "second"
    /\ UnionSecondRow(TableFileIterator_nextRow(t2))
TUnionSecondEnd ==
    /\ self.tool = "TUnion" /\ pc = "second"
    /\ DIULoopEnd(TableFileIterator_nextRow(t2), "done")
    /\ t2' = TableFileIterator_nextRow(t2).it /\ UNCHANGED t1

TDiffIntUnionNext ==
    \/ TDifferenceKeysRow \/ TDifferenceKeysEnd \/ TDifferenceScanRow \/ TDifferenceScanEnd
    \/ TIntersectionKeysRow \/ TIntersectionKeysEnd
    \/ TIntersectionScanRow \/ TIntersectionScanEnd
    \/ TUnionFirstRow \/ TUnionFirstEnd \/ TUnionSecondRow \/ TUnionSecondEnd

SpecDIU == TDiffIntUnionInit /\ [][TDiffIntUnionNext]_vars

----------------------------------------------------------------------------
(* Difference, intersection and union, read off the two input files        *)

Rows1 == TableRows(t1.fileDesc.lines)
Rows2 == TableRows(t2.fileDesc.lines)
Keys1 == {KeyOf(Rows1[i], self.kcols1) : i \in 1..Len(Rows1)}
Keys2 == {KeyOf(Rows2[j], self.kcols2) : j \in 1..Len(Rows2)}
LinesOf(rows) == [i \in 1..Len(rows) |-> OutputLine(rows[i])]

DIUEnded == pc \in {"done", "crashed"}
DIUIsDefined ==
    KeysExist(t1.fileDesc.lines, self.kcols1) /\ KeysExist(t2.fileDesc.lines, self.kcols2)

\* C6: for the same two inputs and key columns, every row of T1 (that
\* passes the command-line filters, when filters are given) is output by
\* exactly one of TDifference and TIntersection: by TIntersection when its
\* --k1 key equals the --k2 key of some row of T2, by TDifference when it
\* equals none; each tool preserves the order of T1's rows and outputs no row
\* of T2.
C6_DifferenceAndIntersectionSplitT1 ==
    (DIUEnded /\ DIUIsDefined /\ self.tool \in {"TDifference", "TIntersection"}) =>
        /\ pc = "done"
        /\ ofd = LinesOf(SelectSeq(Rows1,
                    LAMBDA r : /\ PassesFilters(r)
                               /\ (KeyOf(r, self.kcols1) \in Keys2)
                                      <=> (self.tool = "TIntersection")))

\* TIntersection has ended, without filters and with different key
\* columns for the two tables: of three rows of T1 it wrote two
C6_Witness ==
    /\ pc = "done" /\ self.tool = "TIntersection" /\ self.args = <<>>
    /\ self.kcols1 # self.kcols2
    /\ Len(Rows1) = 3 /\ Len(ofd) = 2 /\ Len(Rows2) > 1

\* C7: TUnion outputs every row of T1 in input order, followed by exactly
\* those rows of T2, in input order, whose --k2 key equals the --k1 key of no
\* row of T1 (rows that fail a command-line filter left out).
C7_UnionIsT1ThenTheNewRowsOfT2 ==
    (DIUEnded /\ DIUIsDefined /\ self.tool = "TUnion") =>
        /\ pc = "done"
        /\ ofd = LinesOf(SelectSeq(Rows1, PassesFilters))
                 \o LinesOf(SelectSeq(Rows2,
                       LAMBDA r : PassesFilters(r) /\ KeyOf(r, self.kcols2) \notin Keys1))

\* TUnion has ended, without filters: it wrote the two rows of T1 and one
\* of the three rows of T2
C7_Witness ==
    /\ pc = "done" /\ self.tool = "TUnion" /\ self.args = <<>>
    /\ self.kcols1 # self.kcols2
    /\ Len(Rows1) = 2 /\ Len(Rows2) = 3 /\ Len(ofd) = 3

----------------------------------------------------------------------------
(* TSort                                                                   *)

\* s.endswith(t)
EndsWith(s, t) == Len(t) <= Len(s) /\ SubSeq(s, Len(s) - Len(t) + 1, Len(s)) = t

\* int(s) for a string of digits
RECURSIVE ParseInt(_)
ParseInt(s) == IF s = <<>> THEN 0 ELSE 10 * ParseInt(DropLast(s)) + (Ord(s[Len(s)]) - Ord("0"))

\* TSort.processOptions: one -k option, COL, COL:r or COLr
SortKey(skey) ==
    IF EndsWith(skey, <<":", "r">>)
    THEN [col |-> ParseInt(SubSeq(skey, 1, Len(skey) - 2)), reverse |-> TRUE]
    ELSE IF EndsWith(skey, <<"r">>)
    THEN [col |-> ParseInt(DropLast(skey)), reverse |-> TRUE]
    ELSE [col |-> ParseInt(skey), reverse |-> FALSE]

\* list.reverse()
Reversed(q) == [i \in 1..Len(q) |-> q[Len(q) + 1 - i]]

\* rows.sort(key=kfun, reverse=True) on a list sorted so far: the row goes
\* behind the rows whose key is not smaller (the sort is stable)
Inserted(sorted, row, c) ==
    SelectSeq(sorted, LAMBDA x : ~StrLess(x[c + 1], row[c + 1]))
    \o <<row>>
    \o SelectSeq(sorted, LAMBDA x : StrLess(x[c + 1], row[c + 1]))

RECURSIVE SortLoop(_, _, _, _)
SortLoop(rows, i, sorted, c) ==
    IF i > Len(rows) THEN sorted
    ELSE SortLoop(rows, i + 1, Inserted(sorted, rows[i], c), c)

\* TSort.doSort: the reverse argument is not used
doSort(rows, column, reverse) == SortLoop(rows, 1, <<>>, column)

\* for (col,rev) in self.options.sortKeys: self.doSort(self.rows, col, rev)
RECURSIVE SortAll(_, _, _)
SortAll(rows, keys, i) ==
    IF i > Len(keys) THEN rows
    ELSE SortAll(doSort(rows, keys[i].col, keys[i].reverse), keys, i + 1)

SortTexts == { <<"a", TAB, "b">>, <<"a", TAB, "a">>, <<"b", TAB, "a">> }
SortFiles == TextFiles(SortTexts, MaxLines)
\* the -k options
SortOptions ==
    { <<>>, << <<"1">> >>, << <<"1", ":", "r">> >>, << <<"2">> >>,
      << <<"1">>, <<"2">> >>, << <<"2">>, <<"1", ":", "r">> >>,
      << <<"1", ":", "r">>, <<"2", "r">> >>, << <<"3">> >> }
SortArgs == { <<>>, <<Arg(TRUE, "IN[1]=='a'")>> }

\* TSort(argv)
TSortInit ==
    /\ \E lines \in SortFiles, k \in SortOptions, args \in SortArgs :
          /\ self = TableTool(1, args)
                    @@ [tool |-> "TSort", args |-> args, rows |-> <<>>,
                        sortKeys |-> [i \in 1..Len(k) |-> SortKey(k[i])],
                        rownum |-> 0]
          /\ t1 = TableFileIterator_open(TableFileIterator_init, File("path", "f1", lines))
    /\ t2 = TableFileIterator_init
    /\ ofd = <<>>
    /\ lfd = <<>>
    /\ pc = "read"
    /\ returned = <<>>
    /\ evalLog = <<>>

\* TSort.go: one turn of the loop that reads the rows
SortRead(r) ==
    /\ r.row # None
    /\ t1' = r.it
    /\ lfd' = lfd \o r.log
    /\ self' = [self EXCEPT !.rows = Append(@, r.row)]
    /\ UNCHANGED <<t2, ofd, pc, returned, evalLog>>
TSortReadRow ==
    /\ pc = "read"
    /\ SortRead(TableFileIterator_nextRow(t1))

\* TSort.go: the input is exhausted
SortReadEnd(r) ==
    /\ r.row = None
    /\ t1' = r.it
    /\ lfd' = lfd \o r.log
    /\ pc' = "sort"
    /\ UNCHANGED <<self, t2, ofd, returned, evalLog>>
TSortReadEnd ==
    /\ pc = "read"
    /\ SortReadEnd(TableFileIterator_nextRow(t1))

\* TSort.go: the sort keys are reversed and the rows sorted on each;
\* row[c] raises IndexError when a row has no column c
TSortSort ==
    /\ pc = "sort"
    /\ IF \E i \in 1..Len(self.rows), k \in 1..Len(self.sortKeys) :
             self.sortKeys[k].col + 1 > Len(self.rows[i])
       THEN /\ pc' = "crashed"
            /\ self' = [self EXCEPT !.sortKeys = Reversed(@)]
       ELSE /\ pc' = "write"
            /\ self' = [self EXCEPT !.sortKeys = Reversed(@),
                                    !.rows = SortAll(@, Reversed(self.sortKeys), 1)]
    /\ UNCHANGED <<t1, t2, ofd, lfd, returned, evalLog>>

\* TSort.go: one turn of the loop that writes the rows
SortWritten(e) ==
    /\ self' = [e.tool EXCEPT !.rownum = @ + 1]
    /\ ofd' = e.ofd
    /\ lfd' = lfd \o e.log
    /\ evalLog' = e.evaluated
    /\ pc' = IF e.raised THEN "crashed" ELSE "write"
    /\ UNCHANGED <<t1, t2, returned>>
TSortWriteRow ==
    /\ pc = "write"
    /\ self.rownum < Len(self.rows)
    /\ SortWritten(Emit(self, ofd, self.rows[self.rownum + 1], None))

\* TSort.go: the loop over the rows ends
TSortWriteEnd ==
    /\ pc = "write"
    /\ self.rownum = Len(self.rows)
    /\ pc' = "done"
    /\ UNCHANGED <<self, t1, t2, ofd, lfd, returned, evalLog>>

TSortNext ==
    TSortReadRow \/ TSortReadEnd \/ TSortSort \/ TSortWriteRow \/ TSortWriteEnd

SpecSort == TSortInit /\ [][TSortNext]_vars

----------------------------------------------------------------------------
(* The sort, read off the -k options and the input file                    *)

\* the sort keys in the order they were given, and the rows read
KeysGiven == IF pc \in {"read", "sort"} THEN self.sortKeys ELSE Reversed(self.sortKeys)
SortIsDefined ==
    \A k \in 1..Len(KeysGiven) : KeysGiven[k].col <= TableWidth(t1.fileDesc.lines)
        \/ TableRows(t1.fileDesc.lines) = <<>>

\* row r goes before row s on key k, and on the keys from k on
BeforeOn(r, s, k) ==
    IF KeysGiven[k].reverse THEN StrLess(s[KeysGiven[k].col + 1], r[KeysGiven[k].col + 1])
    ELSE StrLess(r[KeysGiven[k].col + 1], s[KeysGiven[k].col + 1])
RECURSIVE BeforeFrom(_, _, _)
BeforeFrom(r, s, k) ==
    IF k > Len(KeysGiven) THEN FALSE
    ELSE IF BeforeOn(r, s, k) THEN TRUE
    ELSE IF BeforeOn(s, r, k) THEN FALSE
    ELSE BeforeFrom(r, s, k + 1)

\* the rows are those of the input, each once, and no row is followed by
\* one that goes before it; the output is these rows in this order, less
\* the ones a filter rejects
SortedOutput ==
    /\ pc = "done"
    /\ Len(self.rows) = Len(TableRows(t1.fileDesc.lines))
    /\ \A n \in 1..Len(self.rows) :
          /\ IntOf(self.rows[n][1]) \in 1..Len(self.rows)
          /\ \A m \in 1..Len(self.rows) : m # n => self.rows[m][1] # self.rows[n][1]
          /\ From1(self.rows[n]) = TableRows(t1.fileDesc.lines)[IntOf(self.rows[n][1])]
    /\ \A n \in 1..(Len(self.rows) - 1) : ~BeforeFrom(self.rows[n + 1], self.rows[n], 1)
    /\ ofd = LinesOf(SelectSeq([n \in 1..Len(self.rows) |-> From1(self.rows[n])],
                               PassesFilters))

\* C8: TSort outputs a permutation of the input rows sorted on the -k
\* columns: ascending on a column given as COL and descending on a column
\* given as COL:r, the first -k option being the primary key and each later
\* one breaking the ties of the earlier ones.
C8_OutputIsSortedAsAsked ==
    (pc \in {"done", "crashed"} /\ SortIsDefined) => SortedOutput

\* C8 when every -k option asks for the reversed order: there it holds
C8_HoldsWhenEveryKeyIsReversed ==
    (pc \in {"done", "crashed"} /\ SortIsDefined
        /\ \A k \in 1..Len(KeysGiven) : KeysGiven[k].reverse) => SortedOutput

----------------------------------------------------------------------------
(* TBucketize, BipartiteGraph, CCA                                         *)

BUCKETS == { <<"0", "-", "1">>, <<"1", "-", "0">>, <<"1", "-", "1">>,
             <<"n", "-", "1">>, <<"1", "-", "n">>, <<"n", "-", "m">> }

\* TBucketize.makeKey: None when a key column holds the null string
TBucketize_makeKey(tool, row, cols, prepend) ==
    IF \E i \in 1..Len(cols) : row[cols[i] + 1] = tool.nullString
    THEN None
    ELSE <<prepend>> \o [i \in 1..Len(cols) |-> row[cols[i] + 1]]

\* BipartiteGraph.__getneighbors__: the graph with a node for n
WithNode(nodes, n) ==
    IF \E i \in 1..Len(nodes) : nodes[i].n = n THEN nodes
    ELSE Append(nodes, [n |-> n, ns |-> <<>>])
\* the neighbours of n, a node of the graph
Neighbors(nodes, n) == nodes[CHOOSE i \in 1..Len(nodes) : nodes[i].n = n].ns

\* one half of BipartiteGraph.add: x gets a node and, when y is not None,
\* the neighbour y
Linked(nodes, x, y) ==
    IF x = None THEN nodes
    ELSE [i \in 1..Len(WithNode(nodes, x)) |->
            IF WithNode(nodes, x)[i].n = x /\ y # None
               /\ \A j \in 1..Len(WithNode(nodes, x)[i].ns) : WithNode(nodes, x)[i].ns[j] # y
            THEN [n |-> x, ns |-> Append(WithNode(nodes, x)[i].ns, y)]
            ELSE WithNode(nodes, x)[i]]

\* BipartiteGraph.add
BipartiteGraph_add(nodes, a, b) == Linked(Linked(nodes, a, b), b, a)

\* CCA.__init__
CCA_init == [visited |-> {}, cc |-> {}, cid |-> 0, na |-> 0, nb |-> 0]

\* n in self.visited
IsVisited(c, n) == \E v \in c.visited : v.n = n

\* CCA.reach, up to the loop over the neighbours
Counted(c, n) ==
    [c EXCEPT !.visited = @ \cup {[n |-> n, cid |-> c.cid, bucket |-> None]},
              !.na = IF n[1] = "A" THEN @ + 1 ELSE @,
              !.nb = IF n[1] = "B" THEN @ + 1 ELSE @,
              !.cc = @ \cup {n}]

\* CCA.reach and its loop over the neighbours
RECURSIVE reach(_, _, _)
RECURSIVE ReachLoop(_, _, _, _)
reach(nodes, c, n) == ReachLoop(nodes, Counted(c, n), Neighbors(nodes, n), 1)
ReachLoop(nodes, c, ns, i) ==
    IF i > Len(ns) THEN c
    ELSE IF IsVisited(c, ns[i]) THEN ReachLoop(nodes, c, ns, i + 1)
    ELSE ReachLoop(nodes, reach(nodes, c, ns[i]), ns, i + 1)

\* x < y for two keys (tuples of strings)
RECURSIVE KeyLess(_, _, _)
KeyLess(x, y, i) ==
    IF i > Len(x) \/ i > Len(y) THEN Len(x) < Len(y)
    ELSE IF x[i] = y[i] THEN KeyLess(x, y, i + 1)
    ELSE IF i = 1 THEN x[1] = "A"
    ELSE StrLess(x[i], y[i])

\* sorted(keys)
RECURSIVE Sorted(_)
Sorted(S) ==
    IF S = {} THEN <<>>
    ELSE <<CHOOSE x \in S : \A y \in S \ {x} : KeyLess(x, y, 1)>>
         \o Sorted(S \ {CHOOSE x \in S : \A y \in S \ {x} : KeyLess(x, y, 1)})

\* CCA.getBucket
getBucket(c) == StrInt(c.na) \o <<"-">> \o StrInt(c.nb)

\* CCA.go: a new component is started
Fresh(c) == [c EXCEPT !.cc = {}, !.na = 0, !.nb = 0, !.cid = @ + 1]
\* CCA.go: the nodes of the component get its id and bucket
Labelled(c) ==
    [c EXCEPT !.visited = {IF v.n \in c.cc THEN [v EXCEPT !.bucket = getBucket(c)] ELSE v
                             : v \in @}]

\* CCA.go
RECURSIVE CCA_go(_, _, _, _)
CCA_go(nodes, c, keys, i) ==
    IF i > Len(keys) THEN c
    ELSE IF IsVisited(c, keys[i]) THEN CCA_go(nodes, c, keys, i + 1)
    ELSE CCA_go(nodes, Labelled(reach(nodes, Fresh(c), keys[i])), keys, i + 1)

\* CCA.getCid, for a visited node
getCid(c, n) == CHOOSE v \in c.visited : v.n = n

\* TBucketize.getBid
BidOf(counts) ==
    (IF counts[1] \notin {<<"0">>, <<"1">>} THEN <<"n">> ELSE counts[1])
    \o <<"-">>
    \o (IF counts[2] \in {<<"0">>, <<"1">>} THEN counts[2]
        ELSE IF counts[1] \notin {<<"0">>, <<"1">>} THEN <<"m">> ELSE <<"n">>)
getBid(bucket) == BidOf(Split(bucket, "-"))

\* the two ID columns hold a, b or the null string
BucketTexts ==
    { x \o <<TAB>> \o y : x \in {<<>>, <<"a">>, <<"b">>}, y \in {<<>>, <<"a">>, <<"b">>} }
BucketFiles == TextFiles(BucketTexts, MaxLines)

\* TBucketize(argv) with --k1 1 --k2 2
TBucketizeInit ==
    /\ \E lines \in BucketFiles :
          /\ self = TableTool(1, <<>>)
                    @@ [tool |-> "TBucketize", args |-> <<>>,
                        kcols1 |-> <<1>>, kcols2 |-> <<2>>, nullString |-> <<>>,
                        rows |-> <<>>, g |-> <<>>, graph |-> None,
                        cca |-> CCA_init, rownum |-> 0]
          /\ t1 = TableFileIterator_open(TableFileIterator_init, File("path", "f1", lines))
    /\ t2 = TableFileIterator_init
    /\ ofd = <<>>
    /\ lfd = <<>>
    /\ pc = "buildGraph"
    /\ returned = <<>>
    /\ evalLog = <<>>

\* the body of the loop of buildGraph for a row with the keys k1 and k2
Built(tool, inrow, k1, k2) ==
    [tool EXCEPT !.g = BipartiteGraph_add(@, k1, k2),
                 !.rows = Append(@, [k |-> IF k1 # None THEN k1 ELSE k2, r |-> inrow])]

BuildRow(r) ==
    /\ r.row # None
    /\ t1' = r.it
    /\ lfd' = lfd \o r.log
    /\ self' = Built(self, r.row, TBucketize_makeKey(self, r.row, self.kcols1, "A"),
                     TBucketize_makeKey(self, r.row, self.kcols2, "B"))
    /\ UNCHANGED <<t2, ofd, pc, returned, evalLog>>

\* TBucketize.buildGraph: one turn of the loop
TBucketizeBuildRow ==
    /\ pc = "buildGraph"
    /\ BuildRow(TableFileIterator_nextRow(t1))

BuildEnd(r) ==
    /\ r.row = None
    /\ t1' = r.it
    /\ lfd' = lfd \o r.log
    /\ self' = [self EXCEPT !.graph = self.g]
    /\ pc' = "computeCC"
    /\ UNCHANGED <<t2, ofd, returned, evalLog>>

\* TBucketize.buildGraph: the input is exhausted
TBucketizeBuildEnd ==
    /\ pc = "buildGraph"
    /\ BuildEnd(TableFileIterator_nextRow(t1))

\* TBucketize.computeCC
TBucketizeComputeCC ==
    /\ pc = "computeCC"
    /\ self' = [self EXCEPT !.cca =
                   CCA_go(self.graph, CCA_init,
                          Sorted({self.graph[i].n : i \in 1..Len(self.graph)}), 1)]
    /\ pc' = "output"
    /\ UNCHANGED <<t1, t2, ofd, lfd, returned, evalLog>>

\* r[:1] + [cid,bucket,self.getBid(bucket)] + r[1:]
BucketRow(r, v) == <<r[1], PyInt(v.cid), v.bucket, getBid(v.bucket)>> \o From1(r)

\* the row is written to the bucket's file, which is standard output; it
\* is not self.ofd, so nOutputRows stays
BucketWritten(g) ==
    /\ ofd' = IF g.row # None THEN Append(ofd, OutputLine(From1(g.row))) ELSE ofd
    /\ lfd' = lfd \o (IF g.raised THEN ErrorLog(self) ELSE <<>>)
    /\ evalLog' = g.evaluated
    /\ pc' = IF g.raised THEN "crashed" ELSE "output"
    /\ self' = [self EXCEPT !.rownum = @ + 1]

\* TBucketize.output: one turn of the loop; getCid raises KeyError for a
\* key that is not a node of the graph
TBucketizeOutputRow ==
    /\ pc = "output"
    /\ self.rownum < Len(self.rows)
    /\ IF IsVisited(self.cca, self.rows[self.rownum + 1].k)
       THEN BucketWritten(generateOutputRow(self,
                BucketRow(self.rows[self.rownum + 1].r,
                          getCid(self.cca, self.rows[self.rownum + 1].k)), None))
       ELSE /\ pc' = "crashed"
            /\ UNCHANGED <<self, ofd, lfd, evalLog>>
    /\ UNCHANGED <<t1, t2, returned>>

\* TBucketize.output: the loop over the rows ends
TBucketizeOutputEnd ==
    /\ pc = "output"
    /\ self.rownum = Len(self.rows)
    /\ pc' = "done"
    /\ UNCHANGED <<self, t1, t2, ofd, lfd, returned, evalLog>>

TBucketizeNext ==
    \/ TBucketizeBuildRow \/ TBucketizeBuildEnd \/ TBucketizeComputeCC
    \/ TBucketizeOutputRow \/ TBucketizeOutputEnd

SpecBucketize == TBucketizeInit /\ [][TBucketizeNext]_vars

----------------------------------------------------------------------------
(* The buckets, read off the input file                                    *)

BucketRows == TableRows(t1.fileDesc.lines)
\* the IDs of a row: its first-side and second-side ID, unless null
IdsOf(cols) ==
    (IF cols[1] # self.nullString THEN {<<"A", cols[1]>>} ELSE {})
    \cup (IF cols[2] # self.nullString THEN {<<"B", cols[2]>>} ELSE {})
\* the IDs connected to those of S in the association graph
RECURSIVE Connected(_)
Connected(S) ==
    IF \E i \in 1..Len(BucketRows) :
          IdsOf(BucketRows[i]) \cap S # {} /\ ~(IdsOf(BucketRows[i]) \subseteq S)
    THEN Connected(S \cup UNION {IdsOf(BucketRows[i]) :
                       i \in {j \in 1..Len(BucketRows) : IdsOf(BucketRows[j]) \cap S # {}}})
    ELSE S
ComponentOf(i) == Connected(IdsOf(BucketRows[i]))
SideCount(i, side) == Cardinality({x \in ComponentOf(i) : x[1] = side})

\* the bucket id for the counts a and b
BucketId(a, b) ==
    (IF a = 0 THEN <<"0">> ELSE IF a = 1 THEN <<"1">> ELSE <<"n">>)
    \o <<"-">>
    \o (IF b = 0 THEN <<"0">> ELSE IF b = 1 THEN <<"1">>
        ELSE IF a > 1 THEN <<"m">> ELSE <<"n">>)

\* the columns of the n-th output line
OutputColumns(n) == Split(DropLast(ofd[n]), TAB)

\* every row is written once, in input order, behind the component id,
\* the bucket and the bucket id of the component of its IDs
RowsAreLabelled ==
    /\ pc = "done"
    /\ Len(ofd) = Len(BucketRows)
    /\ \A n \in 1..Len(ofd) :
          /\ SubSeq(OutputColumns(n), 4, Len(OutputColumns(n))) = BucketRows[n]
          /\ OutputColumns(n)[2] = StrInt(SideCount(n, "A")) \o <<"-">> \o StrInt(SideCount(n, "B"))
          /\ OutputColumns(n)[3] = BucketId(SideCount(n, "A"), SideCount(n, "B"))
          /\ OutputColumns(n)[3] \in BUCKETS
          /\ \A m \in 1..Len(ofd) :
                (OutputColumns(m)[1] = OutputColumns(n)[1]) <=> (ComponentOf(m) = ComponentOf(n))

\* C9: TBucketize writes every input row exactly once (rows in which one
\* or both ID columns hold the null string included), labelled with the
\* component id and bucket of the connected component of the bipartite
\* association graph that contains the row's ID(s): two rows get the same
\* component id exactly when their IDs are connected, the bucket is 'a-b'
\* with a and b the numbers of distinct first-side and second-side IDs in the
\* component, and its bucket id is one of 0-1, 1-0, 1-1, n-1, 1-n, n-m.
C9_EveryRowIsWrittenWithItsBucket ==
    pc \in {"done", "crashed"} => RowsAreLabelled

\* C9 for inputs in which every row has an ID: there it holds
C9_HoldsWhenEveryRowHasAnID ==
    (pc \in {"done", "crashed"}
        /\ \A i \in 1..Len(BucketRows) : IdsOf(BucketRows[i]) # {}) => RowsAreLabelled

----------------------------------------------------------------------------
(* TXpand                                                                  *)

DEFAULT_PSS == <<"[", ",", "]">>

\* spec.split(':', 1)
SplitOnce(spec) ==
    IF \E i \in 1..Len(spec) : spec[i] = ":"
    THEN << SubSeq(spec, 1, Least({i \in 1..Len(spec) : spec[i] = ":"}) - 1),
            SubSeq(spec, Least({i \in 1..Len(spec) : spec[i] = ":"}) + 1, Len(spec)) >>
    ELSE <<spec>>

\* the prefix, separator and suffix processXspec reads off a PSS
FromPSS(col, pss) ==
    CASE Len(pss) = 1 -> [col |-> col, prefix |-> <<>>, sep |-> pss, suffix |-> <<>>]
      [] Len(pss) = 2 -> [col |-> col, prefix |-> <<pss[1]>>, sep |-> <<>>,
                          suffix |-> <<pss[2]>>]
      [] Len(pss) = 3 -> [col |-> col, prefix |-> <<pss[1]>>, sep |-> <<pss[2]>>,
                          suffix |-> <<pss[3]>>]
      [] OTHER        -> [col |-> col, prefix |-> <<>>, sep |-> <<",">>, suffix |-> <<>>]

\* TXpand.processXspec
processXspec(spec) ==
    FromPSS(ParseInt(SplitOnce(spec)[1]),
            IF Len(SplitOnce(spec)) = 2 /\ Len(SplitOnce(spec)[2]) > 0
            THEN SplitOnce(spec)[2] ELSE DEFAULT_PSS)

\* s[a:b] for a, b >= 0 and s[b:] for any b
Slice(s, a, b) == SubSeq(s, a + 1, IF b < Len(s) THEN b ELSE Len(s))
SliceFrom(s, b) ==
    IF b < 0 THEN SubSeq(s, (IF Len(s) + b < 0 THEN 0 ELSE Len(s) + b) + 1, Len(s))
    ELSE SubSeq(s, b + 1, Len(s))

\* re.split(sep, s) for a separator that is one plain character, or empty
RegexSplit(sep, text) ==
    IF sep = <<>>
    THEN << <<>> >> \o [i \in 1..Len(text) |-> <<text[i]>>] \o << <<>> >>
    ELSE Split(text, sep[1])

\* list(map(conv, items)): None is not callable
ListMap(conv, items) ==
    IF items = <<>> THEN Value("list", <<>>)
    ELSE IF conv = None THEN Raise("TypeError")
    ELSE Value("list", items)

\* TXpand.expandValue
expandValue(value, prefix, sep, suffix, conv) ==
    IF value # <<>> /\ value[1] = "int" THEN Value("None", <<>>)
    ELSE IF Slice(value, 0, Len(prefix)) # prefix THEN Raise("RuntimeError")
    ELSE IF SliceFrom(value, Len(value) - Len(suffix)) # suffix THEN Raise("RuntimeError")
    ELSE ListMap(conv, RegexSplit(sep, Slice(value, Len(prefix), Len(value) - Len(suffix))))

\* the first loop of expandRow, with the value expandValue returned
RECURSIVE ExpandLoop(_, _, _, _)
Expanded(tool, row, k, x, xvs) ==
    IF xvs.t = "raise" THEN [raised |-> TRUE, xvals |-> <<>>, nxr |-> 0]
    ELSE IF xvs.t = "None" THEN ExpandLoop(tool, row, k + 1, x)
    ELSE ExpandLoop(tool, row, k + 1,
                    [x EXCEPT !.xvals = Append(@, [col |-> tool.xpColumns[k].col, xvs |-> xvs.v]),
                              !.nxr = IF Len(xvs.v) > @ THEN Len(xvs.v) ELSE @])
ExpandLoop(tool, row, k, x) ==
    IF k > Len(tool.xpColumns) THEN x
    ELSE IF tool.xpColumns[k].col + 1 > Len(row)
    THEN [raised |-> TRUE, xvals |-> <<>>, nxr |-> 0]
    ELSE Expanded(tool, row, k, x,
                  expandValue(row[tool.xpColumns[k].col + 1], tool.xpColumns[k].prefix,
                              tool.xpColumns[k].sep, tool.xpColumns[k].suffix, None))

\* the i-th expanded row (i from 0): the for loop over xvals
RECURSIVE ExpandedRow(_, _, _, _)
ExpandedRow(xrow, xvals, k, i) ==
    IF k > Len(xvals) THEN xrow
    ELSE ExpandedRow([xrow EXCEPT ![xvals[k].col + 1] =
                          IF i < Len(xvals[k].xvs) THEN xvals[k].xvs[i + 1] ELSE <<>>],
                     xvals, k + 1, i)

\* TXpand.expandRow: the expanded rows, or that an exception was raised
RowsOf(row, x) ==
    [raised |-> x.raised,
     xrows |-> IF x.raised THEN <<>>
               ELSE [i \in 1..x.nxr |-> ExpandedRow(row, x.xvals, 1, i - 1)]]
expandRow(tool, row) ==
    RowsOf(row, ExpandLoop(tool, row, 1, [raised |-> FALSE, xvals |-> <<>>, nxr |-> 1]))

\* TXpand.generateOutputRows: the loop over the expanded rows
RECURSIVE OutputLoop(_, _, _)
OutputLoop(st, xrows, i) ==
    IF i > Len(xrows) \/ st.raised THEN st
    ELSE OutputLoop(After(st, Emit(st.tool, st.ofd, xrows[i], None)), xrows, i + 1)

XpandTexts == { <<"[", "a", ",", "b", "]", TAB, "b">>,
                <<"[", "a", "]", TAB, "[", "b", ",", "a", "]">>,
                <<"a", ",", "b", TAB, "a">> }
XpandFiles == TextFiles(XpandTexts, MaxLines)
\* the -x options
XpandSpecs ==
    { <<>>, << <<"1">> >>, << <<"0">> >>, << <<"1", ":", ",">> >>,
      << <<"1", ":", "[", ",", "]">>, <<"2">> >>, << <<"3">> >> }
XpandArgs == { <<>>, <<Arg(TRUE, "IN[1]=='a'")>> }

\* TXpand(argv)
TXpandInit ==
    /\ \E lines \in XpandFiles, x \in XpandSpecs, args \in XpandArgs :
          /\ self = TableTool(1, args)
                    @@ [tool |-> "TXpand", args |-> args, xpSpecs |-> x,
                        xpColumns |-> [i \in 1..Len(x) |-> processXspec(x[i])]]
          /\ t1 = TableFileIterator_open(TableFileIterator_init, File("path", "f1", lines))
    /\ t2 = TableFileIterator_init
    /\ ofd = <<>>
    /\ lfd = <<>>
    /\ pc = "go"
    /\ returned = <<>>
    /\ evalLog = <<>>

\* the tool after generateOutputRows
Xpanded(st, it) ==
    /\ t1' = it
    /\ self' = st.tool
    /\ ofd' = st.ofd
    /\ lfd' = lfd \o st.log
    /\ evalLog' = st.evaluated
    /\ pc' = IF st.raised THEN "crashed" ELSE "go"
    /\ UNCHANGED <<t2, returned>>

XpandRow(r, x) ==
    /\ r.row # None
    /\ Xpanded(OutputLoop(Start(self, ofd, r.log, x.raised), x.xrows, 1), r.it)

\* TXpand.go: one turn of the loop
TXpandRow ==
    /\ pc = "go"
    /\ XpandRow(TableFileIterator_nextRow(t1),
                expandRow(self, TableFileIterator_nextRow(t1).row))

XpandEnd(r) ==
    /\ r.row = None
    /\ t1' = r.it
    /\ lfd' = lfd \o r.log
    /\ pc' = "done"
    /\ UNCHANGED <<self, t2, ofd, returned, evalLog>>

\* TXpand.go: the input is exhausted
TXpandEnd ==
    /\ pc = "go"
    /\ XpandEnd(TableFileIterator_nextRow(t1))

TXpandNext == TXpandRow \/ TXpandEnd

SpecXpand == TXpandInit /\ [][TXpandNext]_vars

----------------------------------------------------------------------------
(* The expansion, read off the -x options and the input file               *)

XpandRows == TableRows(t1.fileDesc.lines)
\* the -x options that name a column of the table (column 0 is the row
\* number, which is no list)
ListColumns == {k \in 1..Len(self.xpColumns) : self.xpColumns[k].col >= 1}
\* the value is a list in the syntax of the k-th -x option
IsList(value, k) ==
    /\ Len(value) >= Len(self.xpColumns[k].prefix) + Len(self.xpColumns[k].suffix)
    /\ SubSeq(value, 1, Len(self.xpColumns[k].prefix)) = self.xpColumns[k].prefix
    /\ SubSeq(value, Len(value) - Len(self.xpColumns[k].suffix) + 1, Len(value))
          = self.xpColumns[k].suffix
\* its elements
ElementsOf(value, k) ==
    Split(SubSeq(value, Len(self.xpColumns[k].prefix) + 1,
                 Len(value) - Len(self.xpColumns[k].suffix)),
          self.xpColumns[k].sep[1])

XpandIsDefined ==
    \A k \in ListColumns :
        /\ self.xpColumns[k].sep # <<>>
        /\ \A i \in 1..Len(XpandRows) :
              /\ self.xpColumns[k].col <= Len(XpandRows[i])
              /\ IsList(XpandRows[i][self.xpColumns[k].col], k)

\* the number of rows a row expands to, and the j-th of them
RowCount(cols) ==
    IF ListColumns = {} THEN 1
    ELSE CHOOSE n \in {Len(ElementsOf(cols[self.xpColumns[k].col], k)) : k \in ListColumns} :
            \A k \in ListColumns : Len(ElementsOf(cols[self.xpColumns[k].col], k)) <= n
ExpansionRow(cols, j) ==
    [c \in 1..Len(cols) |->
        IF \E k \in ListColumns : self.xpColumns[k].col = c
        THEN LET k == CHOOSE k \in ListColumns : self.xpColumns[k].col = c
             IN  IF j <= Len(ElementsOf(cols[c], k)) THEN ElementsOf(cols[c], k)[j] ELSE <<>>
        ELSE cols[c]]
Expansion(cols) == [j \in 1..RowCount(cols) |-> ExpansionRow(cols, j)]

RECURSIVE Expansions(_, _)
Expansions(rows, i) ==
    IF i > Len(rows) THEN <<>> ELSE Expansion(rows[i]) \o Expansions(rows, i + 1)

\* the output is the expansion of each input row in turn, less the rows a
\* filter rejects
OutputIsTheExpansion ==
    /\ pc = "done"
    /\ ofd = LinesOf(SelectSeq(Expansions(XpandRows, 1), PassesFilters))

\* C10: TXpand turns each input row into as many output rows as there are
\* elements in its expanded list-valued column, the j-th output row holding
\* the j-th list element in that column; several expanded columns are
\* expanded in parallel, the j-th output row holding the j-th element of
\* each, and all other columns are copied unchanged into every output row.
C10_RowsAreExpanded ==
    (pc \in {"done", "crashed"} /\ XpandIsDefined) => OutputIsTheExpansion

\* C10 when no -x option names a column of the table, or the table has
\* no rows: there it holds
C10_HoldsWithNothingToExpand ==
    (pc \in {"done", "crashed"} /\ XpandIsDefined
        /\ (ListColumns = {} \/ XpandRows = <<>>)) => OutputIsTheExpansion

----------------------------------------------------------------------------
(* Aggregation without group-by columns                                    *)

\* the one row of global aggregates, for an input with rows
OneGlobalRow ==
    InputRows # <<>> => ofd = <<OutputLine(AggregateRow(<<>>))>>

\* C11: when TAggregate is given no group-by columns, the entire input is
\* one partition and the output is a single row of global aggregates; when in
\* addition no aggregations are specified, the output is an empty table: no
\* output line is written.  Stated for runs without filters.
C11_NoGroupByGivesOneGlobalRow ==
    (pc = "done" /\ self.groupBy = <<>> /\ self.args = <<>>) =>
        IF self.aggSpecs = <<>> THEN ofd = <<>> ELSE OneGlobalRow

\* C11 when aggregations are specified: there it holds
C11_HoldsWithAggregations ==
    (pc = "done" /\ self.groupBy = <<>> /\ self.args = <<>> /\ self.aggSpecs # <<>>)
        => OneGlobalRow

----------------------------------------------------------------------------
(* Row numbers                                                             *)

\* the rows nextRow() has returned from the file now open, in order
ReturnedRows ==
    LET rows == SelectSeq(returned, LAMBDA r : r.row # None)
    IN  [i \in 1..Len(rows) |-> rows[i].row]

\* the k-th row returned carries the number k
RowsAreNumberedFromOne ==
    \A k \in 1..Len(ReturnedRows) : ReturnedRows[k][1] = PyInt(k)

\* C12: element 0 of every row returned by a TableFileIterator is that
\* row's integer row number: the k-th row returned carries the number k, for
\* every input, including inputs with comment lines, blank lines and skipped
\* lines of another column count.
C12_KthRowCarriesK ==
    pc \in {"open", "exhausted"} => RowsAreNumberedFromOne

\* C12 for inputs in which no line read so far was skipped for its column
\* count: there it holds
C12_HoldsWithoutSkippedLines ==
    (pc \in {"open", "exhausted"} /\ WarnedLines = <<>>) => RowsAreNumberedFromOne

----------------------------------------------------------------------------
(* Dispatcher                                                              *)
(*                                                                         *)
(* In the Dispatcher specification the variable self holds the state of    *)
(* the module and of the machine it runs on:                               *)
(*   self.dispatchers       the class variable Dispatcher.dispatchers, a   *)
(*                          list of Dispatcher objects; the object at      *)
(*                          position d has dispatcherID d                  *)
(*   self.nextDispatcherID  the class variable of that name                *)
(*   self.processes         the subprocesses: for the command id of        *)
(*                          dispatcher d, self.processes[<<d, id>>] is     *)
(*                          the Popen object with the state of its         *)
(*                          process                                        *)
(*   self.time              time.time(), in whole seconds                  *)
(* pc is the position of the calling program, which is single-threaded:    *)
(* "ready" between two calls, "wait" inside the loop of wait().  returned  *)
(* is the last call and the value it returned.                             *)

UNKNOWN == 0
WAITING == 1
RUNNING == 2
FINISHED == 3

\* the signal of kill -9, as Popen reports it in returncode
SIGKILLED == -9

\* dict[k] = v
Put(dict, k, v) ==
    [x \in (DOMAIN dict) \cup {k} |-> IF x = k THEN v ELSE dict[x]]

\* a list without its element at position i
Removed(list, i) ==
    SubSeq(list, 1, i - 1) \o SubSeq(list, i + 1, Len(list))

\* Dispatcher.__init__, up to the scheduling of the initial commands
Dispatcher_init(maxProcesses, hold, dispatcherID) ==
    [ nextID |-> 1, lastStartedID |-> 0, maxProcesses |-> maxProcesses,
      activeProcesses |-> <<>>, status |-> <<>>, stdout |-> <<>>,
      stderr |-> <<>>, returnCode |-> <<>>, startTime |-> <<>>,
      elapsedTime |-> <<>>, hold |-> hold, dispatcherID |-> dispatcherID ]

\* schedule(), up to the housekeeping: the command gets the next id and
\* waits
Scheduled(o) ==
    [o EXCEPT !.status = Put(@, o.nextID, WAITING),
              !.stdout = Put(@, o.nextID, None),
              !.stderr = Put(@, o.nextID, None),
              !.returnCode = Put(@, o.nextID, None),
              !.nextID = @ + 1]

\* the subprocess Popen starts, before it exits
Popen == [state |-> "running", returncode |-> None, stdout |-> <<>>, stderr |-> <<>>]

\* process.poll() != None
Polled(w, d, id) == w.processes[<<d, id>>].state = "exited"

\* __manageSubprocesses, the body of its first loop for a process that has
\* finished: the entry at position i of activeProcesses
Finish(w, d, i, id) ==
    [w EXCEPT !.dispatchers[d] =
        [@ EXCEPT !.stdout = Put(@, id, Value("list", w.processes[<<d, id>>].stdout)),
                  !.stderr = Put(@, id, Value("list", w.processes[<<d, id>>].stderr)),
                  !.returnCode = Put(@, id, PyInt(w.processes[<<d, id>>].returncode)),
                  !.status = Put(@, id, FINISHED),
                  !.activeProcesses = Removed(@, i),
                  !.elapsedTime = Put(@, id, Value("float", w.time - w.dispatchers[d].startTime[id]))]]

\* __manageSubprocesses, its first loop from position i of activeProcesses:
\* a for loop over the list the body removes entries from, so that the
\* entry after a removed one is passed over
RECURSIVE CloseLoop(_, _, _)
CloseLoop(w, d, i) ==
    IF i > Len(w.dispatchers[d].activeProcesses) THEN w
    ELSE IF Polled(w, d, w.dispatchers[d].activeProcesses[i])
         THEN CloseLoop(Finish(w, d, i, w.dispatchers[d].activeProcesses[i]), d, i + 1)
         ELSE CloseLoop(w, d, i + 1)

\* __manageSubprocesses, the body of its second loop: start command id
StartCommand(w, d, id) ==
    [w EXCEPT !.processes = Put(@, <<d, id>>, Popen),
              !.dispatchers[d] =
                  [@ EXCEPT !.lastStartedID = id,
                            !.activeProcesses = Append(@, id),
                            !.status = Put(@, id, RUNNING),
                            !.startTime = Put(@, id, w.time)]]

\* the same, were the limit on the subprocesses not looked at
RECURSIVE StartLoopNoLimit(_, _)
StartLoopNoLimit(w, d) ==
    IF w.dispatchers[d].nextID > w.dispatchers[d].lastStartedID + 1
    THEN StartLoopNoLimit(StartCommand(w, d, w.dispatchers[d].lastStartedID + 1), d)
    ELSE w

\* __manageSubprocesses, its second loop
RECURSIVE StartLoop(_, _)
StartLoop(w, d) ==
    IF /\ w.dispatchers[d].nextID > w.dispatchers[d].lastStartedID + 1
       /\ Len(w.dispatchers[d].activeProcesses) < w.dispatchers[d].maxProcesses
    THEN StartLoop(StartCommand(w, d, w.dispatchers[d].lastStartedID + 1), d)
    ELSE w

\* the same, were the hold state not looked at
StartUnlessHoldNoHold(w, d) == StartLoop(w, d)

\* __manageSubprocesses, from "if not self.hold"
StartUnlessHold(w, d) ==
    IF w.dispatchers[d].hold THEN w ELSE StartLoop(w, d)

\* dispatcher.__manageSubprocesses(), for the dispatcher at position d
manageSubprocesses(w, d) == StartUnlessHold(CloseLoop(w, d, 1), d)

\* __manageDispatchers, its loop from position d of Dispatcher.dispatchers
RECURSIVE ManageFrom(_, _)
ManageFrom(w, d) ==
    IF d > Len(w.dispatchers) THEN w
    ELSE ManageFrom(manageSubprocesses(w, d), d + 1)

\* self.__manageDispatchers()
manageDispatchers(w) == ManageFrom(w, 1)

\* housekeeping, n times over
RECURSIVE ManageTimes(_, _)
ManageTimes(w, n) ==
    IF n = 0 THEN w ELSE ManageTimes(manageDispatchers(w), n - 1)

\* schedule() n times on an object, without the housekeeping
RECURSIVE ScheduledTimes(_, _)
ScheduledTimes(o, n) ==
    IF n = 0 THEN o ELSE ScheduledTimes(Scheduled(o), n - 1)

\* the bounds of the Dispatcher specification: the Dispatcher objects made,
\* the commands scheduled on all of them together, and the seconds the clock
\* counts
MaxDispatchers == 2
MaxCommands == 2
MaxTime == 1

\* the maxProcesses arguments tried
MaxProcessesArgs == {1, 2}

\* how a subprocess may end by itself: its return code with what it wrote
Exits ==
    { [state |-> "exited", returncode |-> 0, stdout |-> <<"hello\n">>, stderr |-> <<>>] }

\* a call and the value it returned
Called(op, d, id, value) == [op |-> op, d |-> d, id |-> id, value |-> value]

\* dict[k] if dict.has_key(k), else the default
Get(dict, k, default) == IF k \in DOMAIN dict THEN dict[k] ELSE default

\* the Dispatcher objects, by position in Dispatcher.dispatchers
Dispatchers == 1..Len(self.dispatchers)

\* the ids a caller may ask about: those schedule() can return, and one more
AskedIDs == 1..(MaxCommands + 1)

\* the commands scheduled so far, on the dispatchers from position d on
RECURSIVE CommandsFrom(_, _)
CommandsFrom(w, d) ==
    IF d > Len(w.dispatchers) THEN 0
    ELSE (w.dispatchers[d].nextID - 1) + CommandsFrom(w, d + 1)

\* the commands that may still be scheduled
CommandsLeft == MaxCommands - CommandsFrom(self, 1)

DispatcherInit ==
    /\ self = [dispatchers |-> <<>>, nextDispatcherID |-> 1,
               processes |-> <<>>, time |-> 0]
    /\ t1 = TableFileIterator_init
    /\ t2 = TableFileIterator_init
    /\ ofd = <<>>
    /\ lfd = <<>>
    /\ pc = "ready"
    /\ returned = Called("import", 0, 0, None)
    /\ evalLog = <<>>

\* the constructor, from the scheduling of the n initial commands: each
\* schedule() does the housekeeping of the dispatchers made before, and the
\* new object joins Dispatcher.dispatchers at the end
Constructed(w, o, n) ==
    [ManageTimes(w, n) EXCEPT !.dispatchers = Append(@, ScheduledTimes(o, n)),
                              !.nextDispatcherID = @ + 1]

\* Dispatcher(maxProcesses, initialCommands, hold = hold)
DispatcherNew ==
    /\ pc = "ready"
    /\ Len(self.dispatchers) < MaxDispatchers
    /\ \E maxProcesses \in MaxProcessesArgs, n \in 0..CommandsLeft, hold \in BOOLEAN :
          /\ self' = Constructed(self, Dispatcher_init(maxProcesses, hold, self.nextDispatcherID), n)
          /\ returned' = Called("Dispatcher", self.nextDispatcherID, 0, None)
    /\ UNCHANGED <<t1, t2, ofd, lfd, pc, evalLog>>

\* the state after dispatcher d has scheduled a command
AfterSchedule(w, d) ==
    manageDispatchers([w EXCEPT !.dispatchers[d] = Scheduled(@)])

\* id = d.schedule(argv)
DispatcherSchedule ==
    /\ pc = "ready"
    /\ \E d \in Dispatchers :
          /\ CommandsLeft > 0
          /\ self' = AfterSchedule(self, d)
          /\ returned' = Called("schedule", d, 0, PyInt(self.dispatchers[d].nextID))
    /\ UNCHANGED <<t1, t2, ofd, lfd, pc, evalLog>>

\* d.setHoldState(hold)
DispatcherSetHoldState ==
    /\ pc = "ready"
    /\ \E d \in Dispatchers, hold \in BOOLEAN :
          /\ self' = [self EXCEPT !.dispatchers[d].hold = hold]
          /\ returned' = Called("setHoldState", d, 0, None)
    /\ UNCHANGED <<t1, t2, ofd, lfd, pc, evalLog>>

\* kill -9 on a process: one that still runs ends with the signal
Killed(p) ==
    IF p.state = "running"
    THEN [state |-> "exited", returncode |-> SIGKILLED, stdout |-> <<>>, stderr |-> <<>>]
    ELSE p

\* terminateProcesses, its loop from position i of activeProcesses
RECURSIVE KillLoop(_, _, _)
KillLoop(w, d, i) ==
    IF i > Len(w.dispatchers[d].activeProcesses) THEN w
    ELSE KillLoop([w EXCEPT !.processes[<<d, w.dispatchers[d].activeProcesses[i]>>] = Killed(@)],
                  d, i + 1)

\* d.terminateProcesses()
terminateProcesses(w, d) ==
    KillLoop([w EXCEPT !.dispatchers[d].hold = TRUE], d, 1)

DispatcherTerminateProcesses ==
    /\ pc = "ready"
    /\ \E d \in Dispatchers :
          /\ self' = terminateProcesses(self, d)
          /\ returned' = Called("terminateProcesses", d, 0, None)
    /\ UNCHANGED <<t1, t2, ofd, lfd, pc, evalLog>>

\* getStdout, were it to read the pipe of the process whatever its state
getStdoutOfProcess(w, d, id) ==
    IF <<d, id>> \in DOMAIN w.processes
    THEN Value("list", w.processes[<<d, id>>].stdout)
    ELSE None

\* the getters: the housekeeping, then the entry of the dictionary
getElapsedTime(w, d, id) == Get(w.dispatchers[d].elapsedTime, id, PyInt(UNKNOWN))
getStatus(w, d, id) == PyInt(Get(w.dispatchers[d].status, id, UNKNOWN))
getStdout(w, d, id) == Get(w.dispatchers[d].stdout, id, None)
getStderr(w, d, id) == Get(w.dispatchers[d].stderr, id, None)
getReturnCode(w, d, id) == Get(w.dispatchers[d].returnCode, id, None)

\* d.getElapsedTime(id)
DispatcherGetElapsedTime ==
    /\ pc = "ready"
    /\ \E d \in Dispatchers, id \in AskedIDs :
          /\ self' = manageDispatchers(self)
          /\ returned' = Called("getElapsedTime", d, id, getElapsedTime(self', d, id))
    /\ UNCHANGED <<t1, t2, ofd, lfd, pc, evalLog>>

\* d.getStatus(id)
DispatcherGetStatus ==
    /\ pc = "ready"
    /\ \E d \in Dispatchers, id \in AskedIDs :
          /\ self' = manageDispatchers(self)
          /\ returned' = Called("getStatus", d, id, getStatus(self', d, id))
    /\ UNCHANGED <<t1, t2, ofd, lfd, pc, evalLog>>

\* d.getStdout(id)
DispatcherGetStdout ==
    /\ pc = "ready"
    /\ \E d \in Dispatchers, id \in AskedIDs :
          /\ self' = manageDispatchers(self)
          /\ returned' = Called("getStdout", d, id, getStdout(self', d, id))
    /\ UNCHANGED <<t1, t2, ofd, lfd, pc, evalLog>>

\* d.getStderr(id)
DispatcherGetStderr ==
    /\ pc = "ready"
    /\ \E d \in Dispatchers, id \in AskedIDs :
          /\ self' = manageDispatchers(self)
          /\ returned' = Called("getStderr", d, id, getStderr(self', d, id))
    /\ UNCHANGED <<t1, t2, ofd, lfd, pc, evalLog>>

\* d.getReturnCode(id)
DispatcherGetReturnCode ==
    /\ pc = "ready"
    /\ \E d \in Dispatchers, id \in AskedIDs :
          /\ self' = manageDispatchers(self)
          /\ returned' = Called("getReturnCode", d, id, getReturnCode(self', d, id))
    /\ UNCHANGED <<t1, t2, ofd, lfd, pc, evalLog>>

\* wait(), were it to return after its first housekeeping
WaitStepNoLoop(d) ==
    /\ self' = manageDispatchers(self)
    /\ pc' = "ready"
    /\ returned' = Called("wait", d, 0, None)

\* wait(), after a housekeeping: it returns when the dispatcher has no
\* active process, and else sleeps
WaitStep(d) ==
    /\ self' = manageDispatchers(self)
    /\ IF self'.dispatchers[d].activeProcesses = <<>>
       THEN pc' = "ready" /\ returned' = Called("wait", d, 0, None)
       ELSE pc' = "wait" /\ returned' = Called("wait", d, 0, "sleeping")

\* d.wait(), to its loop
DispatcherWait ==
    /\ pc = "ready"
    /\ \E d \in Dispatchers : WaitStep(d)
    /\ UNCHANGED <<t1, t2, ofd, lfd, evalLog>>

\* d.wait(), one turn of its loop
DispatcherWaitLoop ==
    /\ pc = "wait"
    /\ WaitStep(returned.d)
    /\ UNCHANGED <<t1, t2, ofd, lfd, evalLog>>

\* a subprocess ends by itself
ProcessExit ==
    /\ \E k \in DOMAIN self.processes, exit \in Exits :
          /\ self.processes[k].state = "running"
          /\ self' = [self EXCEPT !.processes[k] = exit]
    /\ UNCHANGED <<t1, t2, ofd, lfd, pc, returned, evalLog>>

\* a second passes
Tick ==
    /\ self.time < MaxTime
    /\ self' = [self EXCEPT !.time = @ + 1]
    /\ UNCHANGED <<t1, t2, ofd, lfd, pc, returned, evalLog>>

DispatcherNext ==
    \/ DispatcherNew
    \/ DispatcherSchedule
    \/ DispatcherSetHoldState
    \/ DispatcherTerminateProcesses
    \/ DispatcherGetElapsedTime
    \/ DispatcherGetStatus
    \/ DispatcherGetStdout
    \/ DispatcherGetStderr
    \/ DispatcherGetReturnCode
    \/ DispatcherWait
    \/ DispatcherWaitLoop
    \/ ProcessExit
    \/ Tick

SpecDispatcher == DispatcherInit /\ [][DispatcherNext]_vars

\* the types of the Dispatcher specification
DispatcherTypeOK ==
    /\ pc \in {"ready", "wait"}
    /\ self.nextDispatcherID = Len(self.dispatchers) + 1
    /\ \A d \in Dispatchers :
          /\ self.dispatchers[d].dispatcherID = d
          /\ DOMAIN self.dispatchers[d].status = 1..(self.dispatchers[d].nextID - 1)

----------------------------------------------------------------------------
(* Dispatcher: the properties                                              *)

\* the commands of dispatcher d that have the status st
WithStatus(d, st) ==
    {id \in DOMAIN self.dispatchers[d].status : self.dispatchers[d].status[id] = st}

\* C13: in every reachable state, after any sequence of schedule, status and
\* result queries, wait, setHoldState and terminateProcesses calls on any
\* number of Dispatchers, the number of active (RUNNING) subprocesses of each
\* Dispatcher is at most that Dispatcher's maxProcesses.
C13_RunningIsAtMostMaxProcesses ==
    \A d \in Dispatchers :
        /\ Cardinality(WithStatus(d, RUNNING)) <= self.dispatchers[d].maxProcesses
        /\ Len(self.dispatchers[d].activeProcesses) <= self.dispatchers[d].maxProcesses

\* a dispatcher free to start commands runs as many as it may, and a command
\* waits for its turn
C13_Witness ==
    \E d \in Dispatchers :
        /\ ~self.dispatchers[d].hold
        /\ Cardinality(WithStatus(d, RUNNING)) = self.dispatchers[d].maxProcesses
        /\ WithStatus(d, WAITING) # {}


\* wait() has just returned, on dispatcher d
WaitReturned(d) ==
    /\ pc = "ready"
    /\ returned = Called("wait", d, 0, None)

\* every command scheduled on dispatcher d has finished
AllFinished(d) ==
    \A id \in 1..(self.dispatchers[d].nextID - 1) :
        /\ getStatus(self, d, id) = PyInt(FINISHED)
        /\ getStdout(self, d, id) # None
        /\ getStderr(self, d, id) # None
        /\ getReturnCode(self, d, id) # None

HeldBefore(d) ==
    IF d \in Dispatchers THEN self.dispatchers[d].hold ELSE self'.dispatchers[d].hold

\* the commands of dispatcher d that were RUNNING when the step began
RunningBefore(d) ==
    IF d \in Dispatchers THEN WithStatus(d, RUNNING) ELSE {}

\* the step starts no command of dispatcher d, and a command it schedules on
\* d is WAITING
StartsNone(d) ==
    \A id \in DOMAIN self'.dispatchers[d].status :
        /\ self'.dispatchers[d].status[id] = RUNNING => id \in RunningBefore(d)
        /\ (d \in Dispatchers /\ id \notin DOMAIN self.dispatchers[d].status)
               => self'.dispatchers[d].status[id] = WAITING

\* C15: while a Dispatcher is in the hold state (constructed with hold=True,
\* after setHoldState(True), or after terminateProcesses()), it still
\* accepts scheduled commands, which stay WAITING, and no command of that
\* Dispatcher moves from WAITING to RUNNING until setHoldState(False) is
\* called, whichever Dispatcher's method triggers the housekeeping.
C15_HeldDispatcherStartsNothing ==
    [][\A d \in 1..Len(self'.dispatchers) : HeldBefore(d) => StartsNone(d)]_vars

\* a method of one dispatcher does the housekeeping and starts a command
\* there, while a command waits on another dispatcher that is held and has
\* room for it
C15_Witness ==
    \E d \in Dispatchers, e \in Dispatchers :
        /\ d # e
        /\ self.dispatchers[d].hold
        /\ WithStatus(d, WAITING) # {}
        /\ Len(self.dispatchers[d].activeProcesses) < self.dispatchers[d].maxProcesses
        /\ returned.d = e
        /\ returned.op \in {"schedule", "getStatus", "getStdout", "wait"}
        /\ WithStatus(e, RUNNING) # {}


\* the status of the command the last call asked about
AskedStatus == Get(self.dispatchers[returned.d].status, returned.id, UNKNOWN)

\* what the subprocess of the command the last call asked about has left
AskedProcess == self.processes[<<returned.d, returned.id>>]

\* what a getter of results returns for a finished command
Captured(op) ==
    CASE op = "getStdout" -> Value("list", AskedProcess.stdout)
      [] op = "getStderr" -> Value("list", AskedProcess.stderr)
      [] op = "getReturnCode" -> PyInt(AskedProcess.returncode)

\* C16: getStdout(id), getStderr(id) and getReturnCode(id) return None
\* whenever id is unknown to the Dispatcher or the command has not finished,
\* and return the captured output lines or return code, not None, in every
\* state in which getStatus(id) is FINISHED; getStatus returns UNKNOWN for
\* an id that was never returned by schedule().
C16_ResultsAreNoneUntilFinished ==
    /\ returned.op \in {"getStdout", "getStderr", "getReturnCode"} =>
          IF AskedStatus = FINISHED
          THEN returned.value # None /\ returned.value = Captured(returned.op)
          ELSE returned.value = None
    /\ returned.op = "getStatus" =>
          /\ returned.value = PyInt(AskedStatus)
          /\ returned.id >= self.dispatchers[returned.d].nextID
                => returned.value = PyInt(UNKNOWN)

\* getStdout returns the line a finished command wrote
C16_Witness ==
    /\ returned.op = "getStdout"
    /\ AskedStatus = FINISHED
    /\ returned.value = Value("list", <<"hello\n">>)


\* the floats getElapsedTime can return
Floats == {Value("float", n) : n \in 0..MaxTime}

\* C17: getElapsedTime(id) returns the command's run time as a float number
\* of seconds if the command has finished, and None if it has not finished.
\* Stated for the ids schedule() has returned.
C17_ElapsedTimeIsFloatOrNone ==
    (returned.op = "getElapsedTime" /\ AskedStatus # UNKNOWN) =>
        IF AskedStatus = FINISHED
        THEN returned.value \in Floats
        ELSE returned.value = None

\* C17 for the commands that have finished: there it holds
C17_HoldsForFinishedCommands ==
    (returned.op = "getElapsedTime" /\ AskedStatus = FINISHED)
        => returned.value \in Floats

----------------------------------------------------------------------------
(* AlarmClock                                                              *)
(*                                                                         *)
(* In the AlarmClock specification the variable self holds the module's    *)
(* object alarmClock with the state of the signal module behind it:        *)
(*   self.alarmTime, self.signalHandler, self.userFunction                 *)
(*                   the attributes of alarmClock                          *)
(*   self.handler    the handler of SIGALRM, as signal.signal() set it     *)
(*   self.alarmAt    the time at which the alarm of signal.alarm() is due, *)
(*                   None when there is none                               *)
(*   self.now        the time, in seconds                                  *)
(*   self.invoked    the callbacks invoked so far                          *)
(*   self.calls      the calls of set, clear and reset made so far         *)
(* The functions of the module run between two signals: a call is one      *)
(* step.  returned is the last call, with the value it returned or the     *)
(* exception it raised, and the alarm as it was before the call.  pc is    *)
(* "running" until SIGALRM ends the process.                               *)

error == "AlarmClock.error"
timeUp == "AlarmClock.timeUp"

\* raise x(message) for x a str, as error and timeUp are: the call of x
\* comes first, and a str is not callable
RaiseCalled(x) == Raise("TypeError")

\* no callback given
NoFn == "None"

\* the truth of alarmTime in "if self.alarmTime": None and 0 are false
IsSet(alarmTime) == alarmTime \notin {None, PyInt(0)}

\* AlarmClock.__init__, where h is signal.getsignal(signal.SIGALRM)
AlarmClock_init(h) ==
    [ alarmTime |-> None, signalHandler |-> h, userFunction |-> "raiseException",
      handler |-> h, alarmAt |-> None, now |-> 0, invoked |-> <<>>, calls |-> 0 ]

\* signal.alarm(sec): 0 cancels the alarm
signal_alarm(a, sec) ==
    [a EXCEPT !.alarmAt = IF sec = 0 THEN None ELSE PyInt(a.now + sec)]

\* signal.signal(signal.SIGALRM, h)
signal_signal(a, h) == [a EXCEPT !.handler = h]

\* clearAlarm, were it not to cancel the alarm
clearAlarmNoCancel(a) ==
    signal_signal([a EXCEPT !.alarmTime = None], a.signalHandler)

\* alarmClock.clearAlarm()
clearAlarm(a) ==
    signal_signal([signal_alarm(a, 0) EXCEPT !.alarmTime = None], a.signalHandler)

\* alarmClock.setCallback(fn)
setCallback(a, fn) ==
    [a EXCEPT !.userFunction = IF fn # NoFn THEN fn ELSE "raiseException"]

\* the state a function leaves, with the exception it raised or None
Outcome(a, raised) == [a |-> a, raised |-> raised]

\* alarmClock.setAlarm(sec, userFn)
setAlarm(a, sec, userFn) ==
    IF IsSet(a.alarmTime)
    THEN Outcome(a, RaiseCalled(error))
    ELSE Outcome(signal_alarm(signal_signal(setCallback([a EXCEPT !.alarmTime = PyInt(sec)],
                                                         userFn),
                                            "invokeHandler"),
                              sec),
                 None)

\* reset, were it not to clear the alarm first
resetNoClear(a, sec, fn) == setAlarm(a, sec, fn)

\* reset(sec, fn)
reset(a, sec, fn) == setAlarm(clearAlarm(a), sec, fn)

\* alarmClock.isPending()
isPending(a) == IF IsSet(a.alarmTime) THEN 1 ELSE 0

\* self.userFunction(signal, stack): raiseException raises, a callback of
\* the caller is noted
userFunction(a) ==
    IF a.userFunction = "raiseException"
    THEN Outcome(a, RaiseCalled(timeUp))
    ELSE Outcome([a EXCEPT !.invoked = Append(@, a.userFunction)], None)

\* alarmClock.invokeHandler(signal, stack)
invokeHandler(a) == userFunction(clearAlarm(a))

\* the process is ended by the signal
Terminated == Value("signal", "SIGALRM")

\* SIGALRM arrives: the alarm is spent and the handler in place runs; the
\* default action ends the process, and a handler the program had set before
\* it loaded the module is noted
Signalled(a) ==
    CASE a.handler = "invokeHandler" -> invokeHandler([a EXCEPT !.alarmAt = None])
      [] a.handler = "SIG_DFL" -> Outcome([a EXCEPT !.alarmAt = None], Terminated)
      [] OTHER -> Outcome([a EXCEPT !.alarmAt = None, !.invoked = Append(@, a.handler)], None)

\* the bounds of the AlarmClock specification: the calls made, and the
\* seconds the clock counts
MaxCalls == 3
MaxClock == 3

\* the arguments tried
Secs == {0, 1, 2}
Fns == {NoFn, "f", "g"}

\* what signal.getsignal(signal.SIGALRM) may be when the module is loaded
LoadHandlers == {"SIG_DFL", "handler0"}

\* the alarm, as a call finds it: the attributes, the handler and the time
\* the alarm is due, with the call made last
Alarm(a, op) ==
    [ alarmTime |-> a.alarmTime, userFunction |-> a.userFunction,
      handler |-> a.handler, alarmAt |-> a.alarmAt, op |-> op ]

\* a call of the module, the value it returned or the exception it raised,
\* and the alarm before it
AlarmCalled(op, sec, fn, value) ==
    [ op |-> op, sec |-> sec, fn |-> fn, value |-> value,
      before |-> Alarm(self, returned.op) ]

\* one more call made
Counted1(a) == [a EXCEPT !.calls = @ + 1]

AlarmInit ==
    /\ \E h \in LoadHandlers : self = AlarmClock_init(h)
    /\ t1 = TableFileIterator_init
    /\ t2 = TableFileIterator_init
    /\ ofd = <<>>
    /\ lfd = <<>>
    /\ pc = "running"
    /\ returned = [op |-> "import", sec |-> 0, fn |-> NoFn, value |-> None,
                   before |-> Alarm(self, "import")]
    /\ evalLog = <<>>

\* the step of a call that leaves the outcome o
AlarmCall(op, sec, fn, o) ==
    /\ self' = Counted1(o.a)
    /\ returned' = AlarmCalled(op, sec, fn, o.raised)

\* set(sec, fn)
AlarmSet ==
    /\ pc = "running"
    /\ self.calls < MaxCalls
    /\ \E sec \in Secs, fn \in Fns : AlarmCall("set", sec, fn, setAlarm(self, sec, fn))
    /\ UNCHANGED <<t1, t2, ofd, lfd, pc, evalLog>>

\* clear()
AlarmClear ==
    /\ pc = "running"
    /\ self.calls < MaxCalls
    /\ AlarmCall("clear", 0, NoFn, Outcome(clearAlarm(self), None))
    /\ UNCHANGED <<t1, t2, ofd, lfd, pc, evalLog>>

\* reset(sec, fn)
AlarmReset ==
    /\ pc = "running"
    /\ self.calls < MaxCalls
    /\ \E sec \in Secs, fn \in Fns : AlarmCall("reset", sec, fn, reset(self, sec, fn))
    /\ UNCHANGED <<t1, t2, ofd, lfd, pc, evalLog>>

\* alreadySet()
AlarmAlreadySet ==
    /\ pc = "running"
    /\ returned' = AlarmCalled("alreadySet", 0, NoFn, PyInt(isPending(self)))
    /\ UNCHANGED <<self, t1, t2, ofd, lfd, pc, evalLog>>

\* the alarm is due: SIGALRM
AlarmSounds ==
    /\ pc = "running"
    /\ self.alarmAt = PyInt(self.now)
    /\ self' = Signalled(self).a
    /\ returned' = AlarmCalled("SIGALRM", 0, NoFn, Signalled(self).raised)
    /\ pc' = IF Signalled(self).raised = Terminated THEN "terminated" ELSE "running"
    /\ UNCHANGED <<t1, t2, ofd, lfd, evalLog>>

\* a second passes, none beyond the time the alarm is due
AlarmTick ==
    /\ pc = "running"
    /\ self.now < MaxClock
    /\ self.alarmAt # PyInt(self.now)
    /\ self' = [self EXCEPT !.now = @ + 1]
    /\ UNCHANGED <<t1, t2, ofd, lfd, pc, returned, evalLog>>

AlarmNext ==
    \/ AlarmSet
    \/ AlarmClear
    \/ AlarmReset
    \/ AlarmAlreadySet
    \/ AlarmSounds
    \/ AlarmTick

SpecAlarm == AlarmInit /\ [][AlarmNext]_vars

----------------------------------------------------------------------------
(* AlarmClock: the properties                                              *)

\* the last call was set(), made while an alarm was pending
SetWhilePending ==
    returned.op = "set" /\ IsSet(returned.before.alarmTime)

\* the alarm is as it was before the last call, and pending
AlarmIsAsBefore ==
    /\ Alarm(self, returned.before.op) = returned.before
    /\ isPending(self) = 1

\* C18: calling AlarmClock.set() while an alarm that was set earlier is
\* still pending raises 'error', and the pending alarm is left unchanged:
\* its time, its callback and the installed SIGALRM handler are as before
\* the failed call, and alreadySet() still returns 1.
C18_SetWhilePendingRaisesError ==
    SetWhilePending => (returned.value = Raise(error) /\ AlarmIsAsBefore)

\* C18 without the kind of the exception: the call raises, and the pending
\* alarm is left unchanged
C18_HoldsForTheAlarm ==
    SetWhilePending => (returned.value # None /\ AlarmIsAsBefore)


\* after the last call, reset(sec, fn), exactly one alarm is pending, with the
\* new time and callback: it is due sec seconds after the call, and the
\* handler in place invokes the new callback
NewAlarmIsPending ==
    /\ isPending(self) = 1
    /\ self.alarmTime = PyInt(returned.sec)
    /\ self.handler = "invokeHandler"
    /\ self.userFunction = (IF returned.fn = NoFn THEN "raiseException" ELSE returned.fn)
    /\ self.alarmAt # None
    /\ IntOf(self.alarmAt) \in (self.now)..(self.now + returned.sec)

\* the callback of a replaced alarm is not invoked: when the alarm of the
\* set() or reset() made last sounds, the callback invoked is its own
NewCallbackIsInvoked ==
    (returned.op = "SIGALRM" /\ returned.before.op \in {"set", "reset"}
         /\ returned.before.handler = "invokeHandler")
        => IF returned.before.userFunction = "raiseException"
           THEN returned.value # None
           ELSE /\ self.invoked # <<>>
                /\ self.invoked[Len(self.invoked)] = returned.before.userFunction

\* C19: reset(sec, fn) clears any pending alarm and sets a new one: it never
\* raises 'error' whether or not an alarm was pending, and afterwards exactly
\* one alarm is pending with the new time and callback, so that when it
\* sounds the new callback is invoked and the callback (or default timeUp) of
\* the replaced alarm is not.
C19_ResetSetsTheNewAlarm ==
    /\ returned.op = "reset" => (returned.value = None /\ NewAlarmIsPending)
    /\ NewCallbackIsInvoked

\* C19 for sec of one second or more: there it holds; reset(0, fn) raises
\* nothing either, and leaves no alarm pending and none due
C19_HoldsUnlessZero ==
    /\ returned.op = "reset" =>
          /\ returned.value = None
          /\ IF returned.sec >= 1
             THEN NewAlarmIsPending
             ELSE isPending(self) = 0 /\ self.alarmAt = None
    /\ NewCallbackIsInvoked


\* C20: after clear(), in any state, alreadySet() returns 0, no previously
\* set alarm sounds any more, SIGALRM goes to the handler that was saved as
\* the default when the module was loaded, and a following set() succeeds
\* without raising 'error'.
C20_ClearLeavesNoAlarm ==
    /\ returned.op = "clear" =>
          /\ isPending(self) = 0
          /\ self.alarmAt = None
          /\ self.handler = self.signalHandler
          /\ self.signalHandler = returned.before.handler
                \/ returned.before.handler = "invokeHandler"
    /\ returned.before.op = "clear" =>
          /\ returned.op # "SIGALRM"
          /\ returned.op = "alreadySet" => returned.value = PyInt(0)
          /\ returned.op = "set" => returned.value = None

\* clear() has cleared a pending alarm before it was due
C20_Witness ==
    /\ returned.op = "clear"
    /\ IsSet(returned.before.alarmTime)
    /\ returned.before.alarmAt # None
    /\ returned.before.handler = "invokeHandler"


\* the step is the sounding of a pending alarm: SIGALRM arrives while
\* alarmClock expects it
PendingAlarmSounds ==
    /\ self.alarmAt = PyInt(self.now)
    /\ IsSet(self.alarmTime)
    /\ self.handler = "invokeHandler"
    /\ returned'.op = "SIGALRM"

\* after the step the alarm's information is cleared: alreadySet() is 0 and
\* SIGALRM has the handler saved when the module was loaded
AlarmIsCleared ==
    /\ isPending(self') = 0
    /\ self'.alarmAt = None
    /\ self'.handler = self.signalHandler

\* the step invokes the callback given to the latest set() or reset(), once,
\* and no other
CallbackIsInvokedOnce ==
    /\ self'.invoked = Append(self.invoked, self.userFunction)
    /\ returned'.value = None

\* C21: when a pending alarm sounds, the alarm's information is cleared
\* first (alreadySet() is 0 and the default SIGALRM handler is restored) and
\* only then the callback given to the latest set/reset is invoked, exactly
\* once, with the signal number and stack frame; if no callback was given,
\* the 'timeUp' exception is raised instead.
C21_AlarmClearsThenInvokes ==
    [][PendingAlarmSounds =>
          /\ AlarmIsCleared
          /\ IF self.userFunction = "raiseException"
             THEN self'.invoked = self.invoked /\ returned'.value = Raise(timeUp)
             ELSE CallbackIsInvokedOnce]_vars

\* C21 for the alarms set with a callback: there it holds; without one an
\* exception is raised, and no callback is invoked
C21_HoldsWithACallback ==
    [][PendingAlarmSounds =>
          /\ AlarmIsCleared
          /\ IF self.userFunction = "raiseException"
             THEN self'.invoked = self.invoked /\ returned'.value # None
             ELSE CallbackIsInvokedOnce]_vars

----------------------------------------------------------------------------
(* TJoin: the whole run, for the comparison of two runs                    *)

\* the loop of scanOuter over the outer table from where iterator it stands,
\* b being the iterator of the inner table: the state of the tool at the end
RECURSIVE ScanOuterLoop(_, _, _)
ScanOuterTurn(st, r, b) ==
    IF r.row = None
    THEN IF st.tool.doRightOuter
         THEN UnseenLoop(Start(st.tool, st.ofd, <<>>, FALSE), r.it, b,
                         SelectSeq(st.tool.innerList, LAMBDA x : x # None), 1)
         ELSE st
    ELSE IF IndexError(r.row, st.tool.jcols1)
    THEN Start(st.tool, st.ofd, <<>>, TRUE)
    ELSE ScanOuterLoop(ScanOuterRow(st.tool, st.ofd, r, b,
                                    Lookup(st.tool.inner, makeKey(r.row, st.tool.jcols1))),
                       r.it, b)
ScanOuterLoop(st, it, b) ==
    IF st.raised THEN st ELSE ScanOuterTurn(st, TableFileIterator_nextRow(it), b)

\* TJoin.scanOuter for two tables, after pickInnerOuter left p and loadInner l
scanOuter(p, l) ==
    IF l.raised THEN Start(l.tool, <<>>, <<>>, TRUE)
    ELSE ScanOuterLoop(Start(l.tool, <<>>, <<>>, FALSE), p.t1, l.it)

\* the rest of TJoin.loadInner and TJoin.scanOuter, after pickInnerOuter left p
GoAfterPick(p) == scanOuter(p, LoadInnerLoop(p.tool, [it |-> p.t2, log |-> p.log]))

\* TJoin.go on two tables that are not the same one
TJoin_go(tool, a, b) == GoAfterPick(pickInnerOuter(tool, a, b))

\* the tool as its constructor and processOptions left it, read off the tool of a run
AsConstructed(tool) ==
    [tool EXCEPT !.nOutputRows = 0, !.jcols1 = tool.k1, !.jcols2 = tool.k2,
                 !.doLeftOuter = tool.dlo, !.doRightOuter = tool.dro,
                 !.swappedInputs = FALSE, !.selfJoin = FALSE,
                 !.inner = <<>>, !.innerList = <<>>]

\* the run on the tables of this run, the first given by name and the second
\* by name or on standard input
RunWith(how2) ==
    TJoin_go(AsConstructed(self),
             TableFileIterator_open(TableFileIterator_init, File("path", "f1", Table1)),
             TableFileIterator_open(TableFileIterator_init,
                 File(how2, IF how2 = "path" THEN "f2" ELSE "stdin", Table2)))

\* two outputs hold the same rows, each as many times
SameRows(o1, o2) ==
    \A x \in Items(o1) \cup Items(o2) : Count(o1, x) = Count(o2, x)

\* the run has ended, on two tables given by name that pickInnerOuter did not
\* swap: the first file is not the smaller one
EndedUnswapped ==
    /\ JoinEnded
    /\ ~self.selfJoin
    /\ ~self.swappedInputs
    /\ t2.fileName = "f2"

\* the whole run is the run the tool has made step by step
RunIsTheRunMade ==
    EndedUnswapped =>
        /\ RunWith("path").ofd = ofd
        /\ RunWith("path").raised = (pc = "crashed")
        /\ ~RunWith("path").tool.swappedInputs
        /\ RunWith("stdin").tool.swappedInputs

\* C22: the result of TJoin does not depend on the inner/outer choice: for
\* the same two tables, join columns, outer flags and expressions, the
\* multiset of output rows, with IN1 bound to the row of the table given as
\* file 1 and IN2 to the row of the table given as file 2, is the same whether
\* or not pickInnerOuter swaps the inputs on the file-size heuristic.  The
\* run that did not swap is compared with the run on the same tables with
\* the second one on standard input, which swaps.
C22_SwapDoesNotChangeTheRows ==
    (EndedUnswapped /\ JoinIsDefined) => SameRows(ofd, RunWith("stdin").ofd)

\* C22 without outer flags, and with them for tables from which no line is
\* skipped: there it holds
C22_HoldsWithoutSkippedLines ==
    (EndedUnswapped /\ JoinIsDefined
        /\ ((self.dlo \/ self.dro) => BadLines(Table1) \cup BadLines(Table2) = {}))
        => SameRows(ofd, RunWith("stdin").ofd)

============================================================================
